---- MODULE Spec2Model ----
(***************************************************************************)
(* Model of the meal analysis of healthmealtrack: the GoogleVisionService  *)
(* pipeline (extractFoodItems, getNutritionalData, analyzeHealthRisks,     *)
(* generateRecommendations), the Meal model's pre-save categorisation,    *)
(* the routes and the asynchronous analysis of routes/analysis.js, the     *)
(* User model's points, streak and achievements, and the client's polling. *)
(*                                                                         *)
(* Conventions.  A JavaScript string is a sequence of one-character        *)
(* strings, so that toLowerCase and includes are computed.  Confidences    *)
(* (scores) are integers in hundredths (0.7 is 70).  Per-food nutrient     *)
(* values are integers in tenths (2.7 g is 27); an aggregated meal vector  *)
(* is therefore in thousandths (60 g is 60000).  Arithmetic is exact.      *)
(***************************************************************************)
EXTENDS Integers, Sequences, FiniteSets, TLC

VARIABLES
    \* input and output of extractFoodItems
    labelAnnotations, localizedObjectAnnotations, textAnnotations,
    recognizedFoods, exPc,
    \* input and output of analyzeHealthRisks and generateRecommendations
    nutrition, userProfile, healthAnalysis, recommendations, riskPc,
    \* getNutritionalData: its argument, the service's API key, the settled
    \* lookups, the returned vector
    foods, nutritionApiKey, nutritionResults, combinedNutrition, nuPc,
    \* the Meal and User collections, the running analyzeMealAsync calls, the
    \* running feedback requests, and the log of the writes of the analysis
    \* status to each meal record
    mealDb, userDb, analysis, feedback, writeLog,
    \* the running requests to the routes with what they answered, the
    \* server's clock, the days on which a user has logged in, and the client
    \* polling for an analysis
    request, clock, loginDays, poll

extractVars == <<labelAnnotations, localizedObjectAnnotations, textAnnotations,
                 recognizedFoods, exPc>>

riskVars == <<nutrition, userProfile, healthAnalysis, recommendations, riskPc>>

nutriVars == <<foods, nutritionApiKey, nutritionResults, combinedNutrition, nuPc>>

mealVars == <<mealDb, userDb, analysis, feedback, writeLog>>

clientVars == <<request, clock, loginDays, poll>>

vars == <<extractVars, riskVars, nutriVars, mealVars, clientVars>>

besidesExtract == <<riskVars, nutriVars, mealVars, clientVars>>

besidesRisk == <<extractVars, nutriVars, mealVars, clientVars>>

besidesNutri == <<extractVars, riskVars, mealVars, clientVars>>

besidesMeal == <<extractVars, riskVars, nutriVars, clientVars>>

(***************************************************************************)
(* Strings                                                                 *)
(***************************************************************************)
UpperCase == <<"A","B","C","D","E","F","G","H","I","J","K","L","M","N","O","P","Q","R","S","T","U","V","W","X","Y","Z">>

LowerCase == <<"a","b","c","d","e","f","g","h","i","j","k","l","m","n","o","p","q","r","s","t","u","v","w","x","y","z">>

\* String.prototype.toLowerCase, one character
toLowerChar(c) ==
    IF \E i \in 1..Len(UpperCase) : UpperCase[i] = c
    THEN LowerCase[CHOOSE i \in 1..Len(UpperCase) : UpperCase[i] = c]
    ELSE c

\* String.prototype.toLowerCase
toLowerCase(s) == [i \in 1..Len(s) |-> toLowerChar(s[i])]

\* String.prototype.includes: k occurs in s as a contiguous substring
includes(s, k) ==
    \E i \in 0..(Len(s) - Len(k)) : SubSeq(s, i + 1, i + Len(k)) = k

(***************************************************************************)
(* extractFoodItems (GoogleVisionService)                                  *)
(***************************************************************************)
\* the vocabulary of isFoodRelated, in array order
foodKeywords ==
  <<
     <<"f","o","o","d">>, <<"d","i","s","h">>, <<"m","e","a","l">>,
     <<"c","u","i","s","i","n","e">>, <<"i","n","g","r","e","d","i","e","n","t">>, <<"f","r","u","i","t">>,
     <<"v","e","g","e","t","a","b","l","e">>, <<"m","e","a","t">>, <<"f","i","s","h">>,
     <<"c","h","i","c","k","e","n">>, <<"b","e","e","f">>, <<"p","o","r","k">>,
     <<"l","a","m","b">>, <<"r","i","c","e">>, <<"p","a","s","t","a">>,
     <<"b","r","e","a","d">>, <<"c","a","k","e">>, <<"d","e","s","s","e","r","t">>,
     <<"s","o","u","p">>, <<"s","a","l","a","d">>, <<"s","a","n","d","w","i","c","h">>,
     <<"p","i","z","z","a">>, <<"b","u","r","g","e","r">>, <<"s","t","e","a","k">>,
     <<"s","u","s","h","i">>, <<"c","u","r","r","y">>, <<"n","o","o","d","l","e","s">>,
     <<"p","o","t","a","t","o">>, <<"t","o","m","a","t","o">>, <<"o","n","i","o","n">>,
     <<"g","a","r","l","i","c">>, <<"c","a","r","r","o","t">>, <<"b","r","o","c","c","o","l","i">>,
     <<"s","p","i","n","a","c","h">>, <<"l","e","t","t","u","c","e">>, <<"a","p","p","l","e">>,
     <<"b","a","n","a","n","a">>, <<"o","r","a","n","g","e">>, <<"g","r","a","p","e">>,
     <<"s","t","r","a","w","b","e","r","r","y">>, <<"b","l","u","e","b","e","r","r","y">>, <<"m","i","l","k">>,
     <<"c","h","e","e","s","e">>, <<"y","o","g","u","r","t">>, <<"e","g","g">>,
     <<"b","u","t","t","e","r">>, <<"o","i","l">>, <<"s","a","u","c","e">>,
     <<"c","o","o","k","i","n","g">>, <<"k","i","t","c","h","e","n">>, <<"r","e","s","t","a","u","r","a","n","t">>,
     <<"d","i","n","i","n","g">>, <<"p","l","a","t","e">>, <<"b","o","w","l">>
  >>

isFoodRelated(label) ==
    LET lowerLabel == toLowerCase(label)
    IN  \E n \in 1..Len(foodKeywords) : includes(lowerLabel, foodKeywords[n])

\* the score test of both forEach bodies: score > 0.7
ScoreThreshold == 70

passesScoreAtLeast(score) == score >= ScoreThreshold

passesScore(score) == score > ScoreThreshold

labelItem(label) ==
    [name |-> toLowerCase(label.description), confidence |-> label.score,
     source |-> "label"]

objectItem(obj) ==
    [name |-> toLowerCase(obj.name), confidence |-> obj.score,
     source |-> "object"]

keepLabel(label) == passesScore(label.score) /\ isFoodRelated(label.description)

keepObject(obj) == passesScore(obj.score) /\ isFoodRelated(obj.name)

RECURSIVE mapLabels(_)
mapLabels(s) ==
    IF s = <<>> THEN <<>> ELSE <<labelItem(Head(s))>> \o mapLabels(Tail(s))

RECURSIVE mapObjects(_)
mapObjects(s) ==
    IF s = <<>> THEN <<>> ELSE <<objectItem(Head(s))>> \o mapObjects(Tail(s))

\* foodItems after the two forEach loops: labels first, then localized objects
collectFoodItems(labels, objects) ==
    mapLabels(SelectSeq(labels, keepLabel)) \o
    mapObjects(SelectSeq(objects, keepObject))

RECURSIVE removeDuplicatesFrom(_, _)
removeDuplicatesFrom(foodItems, seen) ==
    IF foodItems = <<>> THEN <<>>
    ELSE LET item == Head(foodItems)
         IN  IF item.name \in seen
             THEN removeDuplicatesFrom(Tail(foodItems), seen)
             ELSE <<item>> \o
                  removeDuplicatesFrom(Tail(foodItems), seen \cup {item.name})

removeDuplicatesByIdentity(foodItems) == foodItems

removeDuplicates(foodItems) == removeDuplicatesFrom(foodItems, {})

\* comparator (a, b) => b.confidence - a.confidence : a sorts before b
\* when the result is negative
sortsBeforeAscending(a, b) == a.confidence - b.confidence < 0

sortsBefore(a, b) == b.confidence - a.confidence < 0

\* stable insertion of x into the sorted sequence s (behind its equals)
RECURSIVE insertSorted(_, _)
insertSorted(x, s) ==
    IF s = <<>> THEN <<x>>
    ELSE IF sortsBefore(x, Head(s)) THEN <<x>> \o s
         ELSE <<Head(s)>> \o insertSorted(x, Tail(s))

\* Array.prototype.sort with the comparator above (stable)
RECURSIVE sortByConfidence(_)
sortByConfidence(s) ==
    IF s = <<>> THEN <<>>
    ELSE insertSorted(s[Len(s)], sortByConfidence(SubSeq(s, 1, Len(s) - 1)))

MaxFoods == 10

\* Array.prototype.slice(0, n)
slice0(s, n) == SubSeq(s, 1, IF Len(s) < n THEN Len(s) ELSE n)

extractFoodItems(visionResults) ==
    LET foodItems == collectFoodItems(visionResults.labelAnnotations,
                                      visionResults.localizedObjectAnnotations)
        uniqueFoods == removeDuplicates(foodItems)
    IN  slice0(sortByConfidence(uniqueFoods), MaxFoods)

(***************************************************************************)
(* analyzeHealthRisks and generateRecommendations (GoogleVisionService)    *)
(***************************************************************************)
NutrientKeys ==
    {"calories", "protein", "carbs", "fat", "fiber", "sugar", "sodium",
     "potassium", "cholesterol", "saturatedFat", "transFat", "vitaminA",
     "vitaminC", "calcium", "iron"}

\* a quantity written in the source in g, mg or kcal, in thousandths
milli(x) == x * 1000

\* nutrition.<key> > <threshold>
exceedsOrEquals(value, threshold) == value >= milli(threshold)

exceeds(value, threshold) == value > milli(threshold)

\* conditions.some(c => c.condition === code)
hasCondition(conditions, code) ==
    \E i \in 1..Len(conditions) : conditions[i].condition = code

riskFinding(type, severity, value, threshold) ==
    [type |-> type, severity |-> severity, value |-> value,
     threshold |-> threshold]

\* the list pushed by one if statement
pushIf(cond, entry) == IF cond THEN <<entry>> ELSE <<>>

\* a reading in which the rules run once per entry of the condition list
rulesOfCondition(nutr, code) ==
    CASE code = "diabetes" ->
             pushIf(exceeds(nutr["carbs"], 60),
                    riskFinding("high_carbs", "warning", nutr["carbs"], 60)) \o
             pushIf(exceeds(nutr["sugar"], 15),
                    riskFinding("high_sugar", "danger", nutr["sugar"], 15))
      [] code = "bp" ->
             pushIf(exceeds(nutr["sodium"], 500),
                    riskFinding("high_sodium", "danger", nutr["sodium"], 500))
      [] code = "kidney" ->
             pushIf(exceeds(nutr["potassium"], 400),
                    riskFinding("high_potassium", "danger", nutr["potassium"], 400))
      [] code = "cholesterol" ->
             pushIf(exceeds(nutr["fat"], 20),
                    riskFinding("high_fat", "warning", nutr["fat"], 20))
      [] OTHER -> <<>>

RECURSIVE conditionRisksPerEntry(_, _)
conditionRisksPerEntry(nutr, conditions) ==
    IF conditions = <<>> THEN <<>>
    ELSE rulesOfCondition(nutr, Head(conditions).condition) \o
         conditionRisksPerEntry(nutr, Tail(conditions))

\* a reading in which the bp rule runs before the diabetes rules
conditionRisksBpFirst(nutr, conditions) ==
    (IF hasCondition(conditions, "bp")
     THEN pushIf(exceeds(nutr["sodium"], 500),
                 riskFinding("high_sodium", "danger", nutr["sodium"], 500))
     ELSE <<>>) \o
    (IF hasCondition(conditions, "diabetes")
     THEN pushIf(exceeds(nutr["carbs"], 60),
                 riskFinding("high_carbs", "warning", nutr["carbs"], 60)) \o
          pushIf(exceeds(nutr["sugar"], 15),
                 riskFinding("high_sugar", "danger", nutr["sugar"], 15))
     ELSE <<>>) \o
    (IF hasCondition(conditions, "kidney")
     THEN pushIf(exceeds(nutr["potassium"], 400),
                 riskFinding("high_potassium", "danger", nutr["potassium"], 400))
     ELSE <<>>) \o
    (IF hasCondition(conditions, "cholesterol")
     THEN pushIf(exceeds(nutr["fat"], 20),
                 riskFinding("high_fat", "warning", nutr["fat"], 20))
     ELSE <<>>)

\* the risks pushed once the profile is known to be present
conditionRisks(nutr, conditions) ==
    (IF hasCondition(conditions, "diabetes")
     THEN pushIf(exceeds(nutr["carbs"], 60),
                 riskFinding("high_carbs", "warning", nutr["carbs"], 60)) \o
          pushIf(exceeds(nutr["sugar"], 15),
                 riskFinding("high_sugar", "danger", nutr["sugar"], 15))
     ELSE <<>>) \o
    (IF hasCondition(conditions, "bp")
     THEN pushIf(exceeds(nutr["sodium"], 500),
                 riskFinding("high_sodium", "danger", nutr["sodium"], 500))
     ELSE <<>>) \o
    (IF hasCondition(conditions, "kidney")
     THEN pushIf(exceeds(nutr["potassium"], 400),
                 riskFinding("high_potassium", "danger", nutr["potassium"], 400))
     ELSE <<>>) \o
    (IF hasCondition(conditions, "cholesterol")
     THEN pushIf(exceeds(nutr["fat"], 20),
                 riskFinding("high_fat", "warning", nutr["fat"], 20))
     ELSE <<>>)

\* the general health check: calories > 600
calorieWarnings(nutr) ==
    pushIf(exceeds(nutr["calories"], 600), [type |-> "high_calories"])

\* a reading of the profile in which a missing profile or list stands for
\* the diabetes condition
analyzeHealthRisksDefaultDiabetes(nutr, profile) ==
    LET conditions == IF profile.present /\ profile.hasConditions
                      THEN profile.healthConditions
                      ELSE << [condition |-> "diabetes"] >>
    IN  [risks |-> conditionRisks(nutr, conditions),
         warnings |-> calorieWarnings(nutr)]

\* A profile is [present, hasConditions, healthConditions]: present is FALSE
\* for a null or undefined userProfile, hasConditions is FALSE when the
\* healthConditions property is missing.  The message strings are left out
\* of findings, warnings and recommendations.
analyzeHealthRisks(nutr, profile) ==
    IF ~profile.present
    THEN [risks |-> <<>>, warnings |-> <<>>]
    ELSE LET conditions == IF profile.hasConditions
                           THEN profile.healthConditions ELSE <<>>
         IN  [risks |-> conditionRisks(nutr, conditions),
              warnings |-> calorieWarnings(nutr)]

recommendation(priority) == [type |-> "dietary", priority |-> priority]

\* a reading of the switch with a default case
recommendationForAnyType(risk) ==
    IF risk.type \in {"high_sugar", "high_sodium", "high_potassium"}
    THEN <<recommendation("high")>>
    ELSE <<recommendation("medium")>>

\* one pass of the switch on risk.type
recommendationFor(risk) ==
    CASE risk.type = "high_carbs" -> <<recommendation("medium")>>
      [] risk.type = "high_sugar" -> <<recommendation("high")>>
      [] risk.type = "high_sodium" -> <<recommendation("high")>>
      [] risk.type = "high_potassium" -> <<recommendation("high")>>
      [] risk.type = "high_fat" -> <<recommendation("medium")>>
      [] OTHER -> <<>>

RECURSIVE generateRecommendationsFrom(_)
generateRecommendationsFrom(risks) ==
    IF risks = <<>> THEN <<>>
    ELSE recommendationFor(Head(risks)) \o generateRecommendationsFrom(Tail(risks))

generateRecommendations(healthResult, profile) ==
    generateRecommendationsFrom(healthResult.risks)

(***************************************************************************)
(* getNutritionalData, getFoodNutrition, parseEdamamResponse and           *)
(* getLocalNutritionData (GoogleVisionService)                             *)
(***************************************************************************)
\* nutritionDB in source order; values in tenths
nutritionDB ==
    <<
       [key |-> <<"r","i","c","e">>,
        nutrition |-> [calories |-> 1300, protein |-> 27, carbs |-> 280, fat |-> 3, fiber |-> 4, sugar |-> 1, sodium |-> 10, potassium |-> 350]],
       [key |-> <<"c","h","i","c","k","e","n">>,
        nutrition |-> [calories |-> 1650, protein |-> 310, carbs |-> 0, fat |-> 36, fiber |-> 0, sugar |-> 0, sodium |-> 740, potassium |-> 2560]],
       [key |-> <<"f","i","s","h">>,
        nutrition |-> [calories |-> 2060, protein |-> 220, carbs |-> 0, fat |-> 120, fiber |-> 0, sugar |-> 0, sodium |-> 610, potassium |-> 3840]],
       [key |-> <<"v","e","g","e","t","a","b","l","e","s">>,
        nutrition |-> [calories |-> 250, protein |-> 20, carbs |-> 50, fat |-> 2, fiber |-> 20, sugar |-> 20, sodium |-> 200, potassium |-> 2000]],
       [key |-> <<"b","r","e","a","d">>,
        nutrition |-> [calories |-> 790, protein |-> 31, carbs |-> 140, fat |-> 11, fiber |-> 12, sugar |-> 12, sodium |-> 1400, potassium |-> 350]],
       [key |-> <<"p","a","s","t","a">>,
        nutrition |-> [calories |-> 1310, protein |-> 50, carbs |-> 250, fat |-> 11, fiber |-> 18, sugar |-> 8, sodium |-> 60, potassium |-> 440]],
       [key |-> <<"p","o","t","a","t","o">>,
        nutrition |-> [calories |-> 770, protein |-> 20, carbs |-> 170, fat |-> 1, fiber |-> 22, sugar |-> 8, sodium |-> 60, potassium |-> 4210]],
       [key |-> <<"t","o","m","a","t","o">>,
        nutrition |-> [calories |-> 180, protein |-> 9, carbs |-> 39, fat |-> 2, fiber |-> 12, sugar |-> 26, sodium |-> 50, potassium |-> 2370]],
       [key |-> <<"o","n","i","o","n">>,
        nutrition |-> [calories |-> 400, protein |-> 11, carbs |-> 93, fat |-> 1, fiber |-> 17, sugar |-> 47, sodium |-> 40, potassium |-> 1460]],
       [key |-> <<"g","a","r","l","i","c">>,
        nutrition |-> [calories |-> 40, protein |-> 2, carbs |-> 10, fat |-> 0, fiber |-> 1, sugar |-> 1, sodium |-> 10, potassium |-> 120]],
       [key |-> <<"o","i","l">>,
        nutrition |-> [calories |-> 1200, protein |-> 0, carbs |-> 0, fat |-> 140, fiber |-> 0, sugar |-> 0, sodium |-> 0, potassium |-> 0]],
       [key |-> <<"s","a","l","t">>,
        nutrition |-> [calories |-> 0, protein |-> 0, carbs |-> 0, fat |-> 0, fiber |-> 0, sugar |-> 0, sodium |-> 5810, potassium |-> 0]],
       [key |-> <<"s","u","g","a","r">>,
        nutrition |-> [calories |-> 160, protein |-> 0, carbs |-> 40, fat |-> 0, fiber |-> 0, sugar |-> 40, sodium |-> 0, potassium |-> 0]],
       [key |-> <<"m","i","l","k">>,
        nutrition |-> [calories |-> 420, protein |-> 34, carbs |-> 50, fat |-> 10, fiber |-> 0, sugar |-> 50, sodium |-> 440, potassium |-> 1500]],
       [key |-> <<"c","h","e","e","s","e">>,
        nutrition |-> [calories |-> 1130, protein |-> 70, carbs |-> 4, fat |-> 90, fiber |-> 0, sugar |-> 1, sodium |-> 1740, potassium |-> 280]],
       [key |-> <<"e","g","g">>,
        nutrition |-> [calories |-> 740, protein |-> 63, carbs |-> 4, fat |-> 50, fiber |-> 0, sugar |-> 4, sodium |-> 700, potassium |-> 670]],
       [key |-> <<"m","e","a","t">>,
        nutrition |-> [calories |-> 2500, protein |-> 260, carbs |-> 0, fat |-> 150, fiber |-> 0, sugar |-> 0, sodium |-> 720, potassium |-> 3180]],
       [key |-> <<"l","e","n","t","i","l","s">>,
        nutrition |-> [calories |-> 1160, protein |-> 90, carbs |-> 200, fat |-> 4, fiber |-> 79, sugar |-> 18, sodium |-> 20, potassium |-> 3690]]
    >>

\* the default nutrition for unknown foods; values in tenths
defaultNutrition ==
    [calories |-> 500, protein |-> 20, carbs |-> 80, fat |-> 10, fiber |-> 10,
     sugar |-> 10, sodium |-> 100, potassium |-> 500]

\* a reading of the match that only asks whether the name contains the key
localMatchNameContainsKey(lowerFoodName, key) == includes(lowerFoodName, key)

\* lowerFoodName.includes(key) || key.includes(lowerFoodName)
localMatch(lowerFoodName, key) ==
    includes(lowerFoodName, key) \/ includes(key, lowerFoodName)

getLocalNutritionData(foodName) ==
    LET lowerFoodName == toLowerCase(foodName)
        hits == { i \in 1..Len(nutritionDB) :
                    localMatch(lowerFoodName, nutritionDB[i].key) }
    IN  IF hits # {}
        THEN nutritionDB[CHOOSE i \in hits : \A j \in hits : i <= j].nutrition
        ELSE defaultNutrition

\* the Edamam code read for each key of the parsed vector
edamamCode ==
    [calories |-> "ENERC_KCAL", protein |-> "PROCNT", carbs |-> "CHOCDF",
     fat |-> "FAT", fiber |-> "FIBTG", sugar |-> "SUGAR", sodium |-> "NA",
     potassium |-> "K", cholesterol |-> "CHOLE", saturatedFat |-> "FASAT",
     transFat |-> "FATRN", vitaminA |-> "VITA_RAE", vitaminC |-> "VITC",
     calcium |-> "CA", iron |-> "FE"]

\* nutrients.<CODE>?.quantity || 0
quantityOrZero(nutrients, code) ==
    IF code \in DOMAIN nutrients THEN nutrients[code].quantity ELSE 0

parseEdamamResponse(response) ==
    [k \in NutrientKeys |-> quantityOrZero(response.totalNutrients, edamamCode[k])]

\* a reading without the local fallback: a lookup without data yields nothing
getFoodNutritionNoFallback(foodName, apiKey, outcome) ==
    IF apiKey /\ outcome.kind = "response" /\ outcome.data.hasTotalNutrients
    THEN parseEdamamResponse(outcome.data)
    ELSE [k \in NutrientKeys |-> 0]

\* An outcome of axios.get is [kind, data]: kind "error" for a rejected
\* request (network error, timeout), kind "response" otherwise, with data
\* [hasTotalNutrients, totalNutrients].
getFoodNutrition(foodName, apiKey, outcome) ==
    IF apiKey /\ outcome.kind = "response" /\ outcome.data.hasTotalNutrients
    THEN parseEdamamResponse(outcome.data)
    ELSE getLocalNutritionData(foodName)

\* food.confidence || 1, in hundredths
weight(food) ==
    IF "confidence" \in DOMAIN food /\ food.confidence # 0
    THEN food.confidence ELSE 100

\* a reading in which a food's weighted values are taken off the total
addWeightedSubtracting(combined, nutr, w) ==
    [k \in NutrientKeys |->
        IF k \in DOMAIN nutr THEN combined[k] - nutr[k] * w ELSE combined[k]]

\* the body of Object.keys(combinedNutrition).forEach for one result
addWeighted(combined, nutr, w) ==
    [k \in NutrientKeys |->
        IF k \in DOMAIN nutr /\ nutr[k] # 0
        THEN combined[k] + nutr[k] * w
        ELSE combined[k]]

zeroNutrition == [k \in NutrientKeys |-> 0]

\* nutritionResults.forEach from index i on
RECURSIVE combineFrom(_, _, _, _)
combineFrom(results, foodList, i, combined) ==
    IF i > Len(results) THEN combined
    ELSE combineFrom(results, foodList, i + 1,
            IF results[i].status = "fulfilled" /\ results[i].hasValue
            THEN addWeighted(combined, results[i].value, weight(foodList[i]))
            ELSE combined)

\* getFallbackNutrition, the result of the catch block of getNutritionalData:
\* (nutrition[key] || 0) * (food.confidence || 1) summed from index i on
RECURSIVE fallbackFrom(_, _, _)
fallbackFrom(foodList, i, total) ==
    IF i > Len(foodList) THEN total
    ELSE LET nutr == getLocalNutritionData(foodList[i].name)
         IN  fallbackFrom(foodList, i + 1,
                [k \in NutrientKeys |->
                    total[k] + (IF k \in DOMAIN nutr THEN nutr[k] ELSE 0) *
                               weight(foodList[i])])

getFallbackNutrition(foodList) == fallbackFrom(foodList, 1, zeroNutrition)

\* the combination getNutritionalData returns once allSettled has resolved
combineNutrition(results, foodList) == combineFrom(results, foodList, 1, zeroNutrition)

(***************************************************************************)
(* The Meal model (models/Meal.js) and the analysis routes                 *)
(* (routes/analysis.js)                                                    *)
(***************************************************************************)
MaxMeals == 1

MealIds == 1..MaxMeals

Users == {"u1", "u2"}

\* A Meal document.  Mongoose gives every array path of the schema (here
\* recognizedFoods, healthRisks, recommendations) the implicit default [],
\* nutrition its declared defaults 0, and category none: the schema states
\* no default for it ("none" stands for the absent value).
newMeal(userId) ==
    [userId |-> userId,
     recognizedFoods |-> <<>>,
     nutrition |-> zeroNutrition,
     healthRisks |-> <<>>,
     recommendations |-> <<>>,
     analysisStatus |-> "processing",
     analysisError |-> "",
     userFeedback |-> FALSE,
     category |-> "none"]

\* a slot of the collection that holds no document
noMeal == [exists |-> FALSE, doc |-> newMeal("u1")]

severityCount(healthRisks, severity) ==
    Cardinality({ i \in 1..Len(healthRisks) : healthRisks[i].severity = severity })

categorizeWarningFirst(doc) ==
    IF severityCount(doc.healthRisks, "warning") > 0
    THEN [doc EXCEPT !.category = "moderate"]
    ELSE IF severityCount(doc.healthRisks, "danger") > 0
         THEN [doc EXCEPT !.category = "unhealthy"]
         ELSE IF Len(doc.healthRisks) = 0
              THEN [doc EXCEPT !.category = "healthy"]
              ELSE doc

\* a reading of the hook without its branch for the empty list
categorizeFindingsOnly(doc) ==
    IF severityCount(doc.healthRisks, "danger") > 0
    THEN [doc EXCEPT !.category = "unhealthy"]
    ELSE IF severityCount(doc.healthRisks, "warning") > 0
         THEN [doc EXCEPT !.category = "moderate"]
         ELSE doc

\* mealSchema.pre('save'): this.aiAnalysis and this.aiAnalysis.healthRisks
\* are always truthy on a document (a nested path and an array path)
preSave(doc) ==
    IF severityCount(doc.healthRisks, "danger") > 0
    THEN [doc EXCEPT !.category = "unhealthy"]
    ELSE IF severityCount(doc.healthRisks, "warning") > 0
         THEN [doc EXCEPT !.category = "moderate"]
         ELSE IF Len(doc.healthRisks) = 0
              THEN [doc EXCEPT !.category = "healthy"]
              ELSE doc

\* the riskLevel virtual
riskLevel(doc) ==
    IF severityCount(doc.healthRisks, "danger") > 0 THEN "high"
    ELSE IF severityCount(doc.healthRisks, "warning") > 0 THEN "medium"
         ELSE "low"

\* document.save() of a loaded document: the pre-save hook runs, then the
\* paths whose value differs from the loaded one are written to the stored
\* document
savedOver(stored, loaded, changed) ==
    LET doc == preSave(changed)
    IN  [f \in DOMAIN stored |-> IF doc[f] # loaded[f] THEN doc[f] ELSE stored[f]]

\* meal.aiAnalysis = { ...meal.aiAnalysis, ...analysisResults, analyzedAt };
\* warnings is no path of the schema and is not stored
withAnalysis(doc, results) ==
    [doc EXCEPT !.recognizedFoods = results.recognizedFoods,
                !.nutrition = results.nutrition,
                !.healthRisks = results.healthRisks,
                !.recommendations = results.recommendations,
                !.analysisStatus = results.analysisStatus]

\* a reading of the failure write that records the status alone
withFailureStatusOnly(doc, message) ==
    [doc EXCEPT !.analysisStatus = "failed"]

\* meal.aiAnalysis.analysisStatus = 'failed'; analysisError = error.message
withFailure(doc, message) ==
    [doc EXCEPT !.analysisStatus = "failed", !.analysisError = message]

\* what analyzeMealImage returns for a vision response, the lookups having
\* settled with the given outcomes
analyzeMealImage(response, apiKey, outcomes, profile) ==
    LET foodList == extractFoodItems(response)
        results == [i \in 1..Len(foodList) |->
                      [status |-> "fulfilled", hasValue |-> TRUE,
                       value |-> getFoodNutrition(foodList[i].name, apiKey,
                                                  outcomes[i])]]
        nutritionData == combineNutrition(results, foodList)
        healthResult == analyzeHealthRisks(nutritionData, profile)
    IN  [recognizedFoods |-> foodList,
         nutrition |-> nutritionData,
         healthRisks |-> healthResult.risks,
         warnings |-> healthResult.warnings,
         recommendations |-> generateRecommendations(healthResult, profile),
         analysisStatus |-> "completed"]

noResults ==
    [recognizedFoods |-> <<>>, nutrition |-> zeroNutrition, healthRisks |-> <<>>,
     warnings |-> <<>>, recommendations |-> <<>>, analysisStatus |-> "pending"]

\* a User document: the paths the analysis reads or writes
newUser(conditions, streak) ==
    [healthConditions |-> conditions, points |-> 0, streak |-> streak,
     achievements |-> <<>>]

\* the profile analyzeHealthRisks sees for a loaded User document
profileOf(user) ==
    [present |-> TRUE, hasConditions |-> TRUE,
     healthConditions |-> user.healthConditions]

\* the achievements array of checkAndUnlockAchievements; user.meals is no
\* path of the User schema, so the first_meal condition reads undefined
achievementList(user) ==
    << [id |-> "first_meal", condition |-> FALSE, points |-> 50],
       [id |-> "week_streak", condition |-> user.streak >= 7, points |-> 200],
       [id |-> "month_streak", condition |-> user.streak >= 30, points |-> 500] >>

hasAchievement(user, id) ==
    \E i \in 1..Len(user.achievements) : user.achievements[i] = id

\* a reading of unlockAchievement without the test for an existing entry
unlockAchievementUnchecked(user, achievement) ==
    [user EXCEPT !.achievements = Append(@, achievement.id),
                 !.points = @ + achievement.points]

\* userSchema.methods.unlockAchievement, before its save
unlockAchievement(user, achievement) ==
    IF ~hasAchievement(user, achievement.id)
    THEN [user EXCEPT !.achievements = Append(@, achievement.id),
                      !.points = @ + achievement.points]
    ELSE user

\* The loop of checkAndUnlockAchievements from achievement i on.  failAt is
\* the index of the achievement whose save rejects (0: none does); the
\* rejection leaves the loop through the catch.  The result is [user, saved]:
\* the in-memory document and the last document a save has stored.
RECURSIVE unlockFrom(_, _, _, _)
unlockFrom(user, saved, i, failAt) ==
    IF i > Len(achievementList(user)) THEN [user |-> user, saved |-> saved]
    ELSE LET achievement == achievementList(user)[i]
         IN  IF achievement.condition /\ ~hasAchievement(user, achievement.id)
             THEN LET unlocked == unlockAchievement(user, achievement)
                  IN  IF failAt = i
                      THEN [user |-> unlocked, saved |-> saved]
                      ELSE unlockFrom(unlocked, unlocked, i + 1, failAt)
             ELSE unlockFrom(user, saved, i + 1, failAt)

\* error.message of a rejected vision analysis and of a rejected database call
visionError == "Image analysis failed"

databaseError == "database error"

idleAnalysis ==
    [pc |-> "idle", user |-> newUser(<<>>, 0), userId |-> "u1",
     analysisResults |-> noResults, meal |-> newMeal("u1"),
     error |-> "", updateError |-> FALSE]

\* The locals of a call are kept only while the code can still read them.
\* analyzeMealAsync has returned:
finished(call) == [idleAnalysis EXCEPT !.pc = "done", !.userId = call.userId]

\* a rejection in the try block enters the catch block with the error
thrown(call, message) ==
    [idleAnalysis EXCEPT !.pc = "catchFind", !.userId = call.userId,
                         !.error = message]

\* meal.save() of the result has resolved
saved(call) ==
    [idleAnalysis EXCEPT !.pc = "addPoints", !.userId = call.userId,
                         !.user = call.user]

idleFeedback == [pc |-> "idle", userId |-> "u1", meal |-> newMeal("u1")]

(***************************************************************************)
(* The parts of the state a specification does not use stay idle           *)
(***************************************************************************)
NoAnalysis == [risks |-> <<>>, warnings |-> <<>>]

RiskIdle ==
    /\ nutrition = [n \in NutrientKeys |-> 0]
    /\ userProfile = [present |-> FALSE, hasConditions |-> FALSE,
                      healthConditions |-> <<>>]
    /\ healthAnalysis = NoAnalysis
    /\ recommendations = <<>>
    /\ riskPc = "idle"

MealIdle ==
    /\ mealDb = [m \in MealIds |-> noMeal]
    /\ userDb = [u \in Users |-> newUser(<<>>, 0)]
    /\ analysis = [m \in MealIds |-> idleAnalysis]
    /\ feedback = [m \in MealIds |-> idleFeedback]
    /\ writeLog = [m \in MealIds |-> <<>>]

NutriIdle ==
    /\ foods = <<>>
    /\ nutritionApiKey = FALSE
    /\ nutritionResults = <<>>
    /\ combinedNutrition = [k \in NutrientKeys |-> 0]
    /\ nuPc = "idle"

ExtractIdle ==
    /\ labelAnnotations = <<>>
    /\ localizedObjectAnnotations = <<>>
    /\ textAnnotations = <<>>
    /\ recognizedFoods = <<>>
    /\ exPc = "idle"

\* no request is running, nobody has logged in, no client polls
\* status 0: no response has been sent
idleRequest ==
    [pc |-> "idle", status |-> 0, userId |-> "u1", user |-> newUser(<<>>, 0)]

idlePoll == [pc |-> "idle", attempts |-> 0]

ClientIdle ==
    /\ request = [m \in MealIds |-> idleRequest]
    /\ clock = 0
    /\ loginDays = {}
    /\ poll = idlePoll

(***************************************************************************)
(* Specification SpecExtract: extractFoodItems on bounded vision results   *)
(***************************************************************************)
MaxDetections == 2

DetectionNames ==
    { <<"R","i","c","e">>, <<"r","i","c","e">>, <<"P","l","a","t","e">> }

DetectionScores == {70, 71, 90}

\* a response that already holds ten distinct food labels and a label that
\* is no food
BaseLabels ==
    << [description |-> <<"T","a","b","l","e">>, score |-> 99],
       [description |-> <<"p","a","s","t","a">>, score |-> 80],
       [description |-> <<"b","r","e","a","d">>, score |-> 95],
       [description |-> <<"s","o","u","p">>, score |-> 75],
       [description |-> <<"s","a","l","a","d">>, score |-> 80],
       [description |-> <<"p","i","z","z","a">>, score |-> 99],
       [description |-> <<"s","u","s","h","i">>, score |-> 72],
       [description |-> <<"c","u","r","r","y">>, score |-> 85],
       [description |-> <<"m","i","l","k">>, score |-> 91],
       [description |-> <<"e","g","g">>, score |-> 88],
       [description |-> <<"A","p","p","l","e"," ","P","i","e">>, score |-> 77] >>

TextSamples == { <<>>, << [description |-> <<"r","i","c","e">>] >> }

visionResults ==
    [labelAnnotations |-> labelAnnotations,
     localizedObjectAnnotations |-> localizedObjectAnnotations,
     textAnnotations |-> textAnnotations]

addedDetections ==
    Len(labelAnnotations) + Len(localizedObjectAnnotations)
    - (IF Len(labelAnnotations) >= Len(BaseLabels) THEN Len(BaseLabels) ELSE 0)

InitExtract ==
    /\ labelAnnotations \in {<<>>, BaseLabels}
    /\ localizedObjectAnnotations = <<>>
    /\ textAnnotations \in TextSamples
    /\ recognizedFoods = <<>>
    /\ exPc = "input"
    /\ RiskIdle /\ NutriIdle /\ MealIdle /\ ClientIdle

AddLabel ==
    /\ exPc = "input"
    /\ addedDetections < MaxDetections
    /\ \E d \in DetectionNames, s \in DetectionScores :
         labelAnnotations' =
             Append(labelAnnotations, [description |-> d, score |-> s])
    /\ UNCHANGED <<localizedObjectAnnotations, textAnnotations, recognizedFoods, exPc>>
    /\ UNCHANGED besidesExtract

AddObject ==
    /\ exPc = "input"
    /\ addedDetections < MaxDetections
    /\ \E d \in DetectionNames, s \in DetectionScores :
         localizedObjectAnnotations' =
             Append(localizedObjectAnnotations, [name |-> d, score |-> s])
    /\ UNCHANGED <<labelAnnotations, textAnnotations, recognizedFoods, exPc>>
    /\ UNCHANGED besidesExtract

ExtractFoodItems ==
    /\ exPc = "input"
    /\ recognizedFoods' = extractFoodItems(visionResults)
    /\ exPc' = "extracted"
    /\ UNCHANGED <<labelAnnotations, localizedObjectAnnotations, textAnnotations>>
    /\ UNCHANGED besidesExtract

NextExtract == AddLabel \/ AddObject \/ ExtractFoodItems

SpecExtract == InitExtract /\ [][NextExtract]_vars

(***************************************************************************)
(* Specification SpecRisk: analyzeHealthRisks and generateRecommendations  *)
(* on bounded nutrient vectors and user profiles                           *)
(***************************************************************************)
MaxConditions == 2

ConditionCodes == {"diabetes", "bp", "kidney", "cholesterol", "thyroid"}

\* measured values at, just above (by 0.01) and well above the thresholds
NutrientSamples ==
    [n \in NutrientKeys |->
        CASE n = "carbs" -> {60000, 70000}
          [] n = "sugar" -> {15000, 20000}
          [] n = "sodium" -> {500000, 500010, 600000}
          [] n = "potassium" -> {400000, 400010}
          [] n = "fat" -> {20000, 20010}
          [] n = "calories" -> {600000, 600010}
          [] OTHER -> {0}]

NutritionSamples ==
    { [n \in NutrientKeys |->
          CASE n = "carbs" -> carbs
            [] n = "sugar" -> sugar
            [] n = "sodium" -> sodium
            [] n = "potassium" -> potassium
            [] n = "fat" -> fat
            [] n = "calories" -> calories
            [] OTHER -> 0] :
        carbs \in NutrientSamples["carbs"], sugar \in NutrientSamples["sugar"],
        sodium \in NutrientSamples["sodium"],
        potassium \in NutrientSamples["potassium"],
        fat \in NutrientSamples["fat"], calories \in NutrientSamples["calories"] }

ConditionLists ==
    UNION { [1..n -> { [condition |-> c] : c \in ConditionCodes }] :
              n \in 0..MaxConditions }

ProfileSamples ==
    { [present |-> FALSE, hasConditions |-> FALSE, healthConditions |-> <<>>],
      [present |-> TRUE, hasConditions |-> FALSE, healthConditions |-> <<>>] } \cup
    { [present |-> TRUE, hasConditions |-> TRUE, healthConditions |-> l] :
        l \in ConditionLists }

InitRisk ==
    /\ nutrition \in NutritionSamples
    /\ userProfile \in ProfileSamples
    /\ healthAnalysis = NoAnalysis
    /\ recommendations = <<>>
    /\ riskPc = "input"
    /\ ExtractIdle /\ NutriIdle /\ MealIdle /\ ClientIdle

AnalyzeHealthRisks ==
    /\ riskPc = "input"
    /\ healthAnalysis' = analyzeHealthRisks(nutrition, userProfile)
    /\ riskPc' = "analyzed"
    /\ UNCHANGED <<nutrition, userProfile, recommendations>>
    /\ UNCHANGED besidesRisk

GenerateRecommendations ==
    /\ riskPc = "analyzed"
    /\ recommendations' = generateRecommendations(healthAnalysis, userProfile)
    /\ riskPc' = "recommended"
    /\ UNCHANGED <<nutrition, userProfile, healthAnalysis>>
    /\ UNCHANGED besidesRisk

NextRisk == AnalyzeHealthRisks \/ GenerateRecommendations

SpecRisk == InitRisk /\ [][NextRisk]_vars

(***************************************************************************)
(* Specification SpecRecommend: generateRecommendations called on bounded  *)
(* findings lists, among them repeated types and types outside the switch  *)
(***************************************************************************)
MaxFindings == 3

FindingTypes ==
    {"high_carbs", "high_sugar", "high_sodium", "high_potassium", "high_fat",
     "high_calories"}

FindingSamples ==
    { riskFinding(t, severity, 0, 0) :
        t \in FindingTypes, severity \in {"warning", "danger"} }

RecommendProfiles ==
    { [present |-> FALSE, hasConditions |-> FALSE, healthConditions |-> <<>>],
      [present |-> TRUE, hasConditions |-> TRUE,
       healthConditions |-> << [condition |-> "diabetes"] >>] }

InitRecommend ==
    /\ nutrition = [n \in NutrientKeys |-> 0]
    /\ userProfile \in RecommendProfiles
    /\ healthAnalysis \in
           { [risks |-> l, warnings |-> <<>>] :
               l \in UNION { [1..n -> FindingSamples] : n \in 0..MaxFindings } }
    /\ recommendations = <<>>
    /\ riskPc = "findings"
    /\ ExtractIdle /\ NutriIdle /\ MealIdle /\ ClientIdle

RecommendForFindings ==
    /\ riskPc = "findings"
    /\ recommendations' = generateRecommendations(healthAnalysis, userProfile)
    /\ riskPc' = "recommended"
    /\ UNCHANGED <<nutrition, userProfile, healthAnalysis>>
    /\ UNCHANGED besidesRisk

NextRecommend == RecommendForFindings

SpecRecommend == InitRecommend /\ [][NextRecommend]_vars

(***************************************************************************)
(* Specification SpecNutri: getNutritionalData on bounded food sequences,   *)
(* the lookups settling in any order                                       *)
(***************************************************************************)
MaxFoodItems == 2

FoodNameSamples ==
    { <<"r","i","c","e">>, <<"c","h","i","c","k","e","n">>, <<"K","a","l","e">> }

\* 0, 0.5 and 1.0; a food may also carry no confidence
ConfidenceSamples == {0, 50, 100}

FoodSamples ==
    { [name |-> n, confidence |-> c] : n \in FoodNameSamples, c \in ConfidenceSamples }
    \cup { [name |-> n] : n \in FoodNameSamples }

\* what the nutrition API may answer for one food
ApiOutcomes ==
    { [kind |-> "error", data |-> [hasTotalNutrients |-> FALSE,
                                     totalNutrients |-> <<>>]],
      [kind |-> "response", data |-> [hasTotalNutrients |-> FALSE,
                                        totalNutrients |-> <<>>]],
      [kind |-> "response",
       data |-> [hasTotalNutrients |-> TRUE,
                 totalNutrients |->
                    [ENERC_KCAL |-> [quantity |-> 520], CHOCDF |-> [quantity |-> 140],
                     SUGAR |-> [quantity |-> 100], K |-> [quantity |-> 1070],
                     VITC |-> [quantity |-> 46], FAT |-> [quantity |-> 0]]]] }

pendingLookup == [status |-> "pending", hasValue |-> FALSE, value |-> <<>>]

InitNutri ==
    /\ foods \in UNION { [1..n -> FoodSamples] : n \in 0..MaxFoodItems }
    /\ nutritionApiKey \in BOOLEAN
    /\ nutritionResults = <<>>
    /\ combinedNutrition = zeroNutrition
    /\ nuPc = "input"
    /\ ExtractIdle /\ RiskIdle /\ MealIdle /\ ClientIdle

\* recognizedFoods.map(food => this.getFoodNutrition(food.name)): every
\* lookup is issued before the await
IssueLookups ==
    /\ nuPc = "input"
    /\ nutritionResults' = [i \in 1..Len(foods) |-> pendingLookup]
    /\ nuPc' = "awaiting"
    /\ UNCHANGED <<foods, nutritionApiKey, combinedNutrition>>
    /\ UNCHANGED besidesNutri

\* one lookup settles; getFoodNutrition catches every request error
SettleLookup ==
    /\ nuPc = "awaiting"
    /\ \E i \in 1..Len(foods), outcome \in ApiOutcomes :
         /\ nutritionResults[i].status = "pending"
         /\ nutritionResults' =
              [nutritionResults EXCEPT ![i] =
                  [status |-> "fulfilled", hasValue |-> TRUE,
                   value |-> getFoodNutrition(foods[i].name, nutritionApiKey, outcome)]]
    /\ UNCHANGED <<foods, nutritionApiKey, combinedNutrition, nuPc>>
    /\ UNCHANGED besidesNutri

\* Promise.allSettled has resolved: combine
CombineNutrition ==
    /\ nuPc = "awaiting"
    /\ \A i \in 1..Len(foods) : nutritionResults[i].status # "pending"
    /\ combinedNutrition' = combineNutrition(nutritionResults, foods)
    /\ nuPc' = "combined"
    /\ UNCHANGED <<foods, nutritionApiKey, nutritionResults>>
    /\ UNCHANGED besidesNutri

NextNutri == IssueLookups \/ SettleLookup \/ CombineNutrition

SpecNutri == InitNutri /\ [][NextNutri]_vars

(***************************************************************************)
(* Specification SpecLocal: getLocalNutritionData called on bounded names  *)
(***************************************************************************)
MaxNameLen == 4

NameLetters == {"r", "i", "c", "e", "E", "g"}

\* every string of up to MaxNameLen letters, and some names of dishes
LocalNameSamples ==
    UNION { [1..n -> NameLetters] : n \in 0..MaxNameLen } \cup
    { <<"F","r","i","e","d"," ","R","i","c","e">>,
      <<"C","h","i","c","k","e","n"," ","R","i","c","e">>,
      <<"P","O","T","A","T","O">>,
      <<"K","a","l","e">> }

InitLocal ==
    /\ foods \in { << [name |-> n] >> : n \in LocalNameSamples }
    /\ nutritionApiKey = FALSE
    /\ nutritionResults = <<>>
    /\ combinedNutrition = zeroNutrition
    /\ nuPc = "name"
    /\ ExtractIdle /\ RiskIdle /\ MealIdle /\ ClientIdle

GetLocalNutritionData ==
    /\ nuPc = "name"
    /\ nutritionResults' =
           << [status |-> "fulfilled", hasValue |-> TRUE,
               value |-> getLocalNutritionData(foods[1].name)] >>
    /\ nuPc' = "local"
    /\ UNCHANGED <<foods, nutritionApiKey, combinedNutrition>>
    /\ UNCHANGED besidesNutri

NextLocal == GetLocalNutritionData

SpecLocal == InitLocal /\ [][NextLocal]_vars

(***************************************************************************)
(* Specification Spec: meal submission, the asynchronous analysis, feedback *)
(* and deletion, interleaved at their awaits                               *)
(***************************************************************************)
kidney == [condition |-> "kidney"]

cholesterol == [condition |-> "cholesterol"]

\* the registered users: u1 has declared kidney disease and high
\* cholesterol and holds a 7-day streak, u2 high cholesterol and no streak
initialUsers ==
    [u \in Users |-> IF u = "u1" THEN newUser(<<kidney, cholesterol>>, 7)
                     ELSE newUser(<<cholesterol>>, 0)]

\* what the vision call may return: nothing, detections none of which
\* qualifies (a table, rice at exactly 0.7), or a potato with cheese and oil
\* (potassium above 400 and fat above 20)
VisionSamples ==
    { [labelAnnotations |-> <<>>, localizedObjectAnnotations |-> <<>>],
      [labelAnnotations |->
          << [description |-> <<"T","a","b","l","e">>, score |-> 99] >>,
       localizedObjectAnnotations |->
          << [name |-> <<"R","i","c","e">>, score |-> 70] >>],
      [labelAnnotations |->
          << [description |-> <<"P","o","t","a","t","o">>, score |-> 99],
             [description |-> <<"C","h","e","e","s","e">>, score |-> 90] >>,
       localizedObjectAnnotations |->
          << [name |-> <<"O","i","l">>, score |-> 90] >>] }

\* in this specification the nutrition API fails or answers without data
LookupOutcomes == { o \in ApiOutcomes : ~o.data.hasTotalNutrients }

Init ==
    /\ mealDb = [m \in MealIds |-> noMeal]
    /\ userDb = initialUsers
    /\ analysis = [m \in MealIds |-> idleAnalysis]
    /\ feedback = [m \in MealIds |-> idleFeedback]
    /\ writeLog = [m \in MealIds |-> <<>>]
    /\ ExtractIdle /\ RiskIdle /\ NutriIdle /\ ClientIdle

\* POST /meal once the user is found and the image uploaded: the record is
\* saved with status processing (the pre-save hook runs), then
\* analyzeMealAsync is started with the loaded user and runs to its first
\* await
SubmitMeal(m, u) ==
    /\ analysis[m].pc = "idle"
    /\ ~mealDb[m].exists
    /\ \A k \in MealIds : k < m => analysis[k].pc # "idle"
    /\ mealDb' = [mealDb EXCEPT ![m] = [exists |-> TRUE, doc |-> preSave(newMeal(u))]]
    /\ writeLog' = [writeLog EXCEPT ![m] = <<"processing">>]
    /\ analysis' = [analysis EXCEPT ![m] =
                       [idleAnalysis EXCEPT !.pc = "vision", !.user = userDb[u],
                                            !.userId = u]]
    /\ UNCHANGED <<userDb, feedback>>
    /\ UNCHANGED besidesMeal

\* await googleVisionService.analyzeMealImage resolves; the lookups of one
\* analysis all meet the same outcome of the nutrition API
VisionReturns(m) ==
    /\ analysis[m].pc = "vision"
    /\ \E response \in VisionSamples, outcome \in LookupOutcomes :
         analysis' = [analysis EXCEPT
             ![m].analysisResults =
                 analyzeMealImage(response, TRUE,
                                  [i \in 1..MaxFoods |-> outcome],
                                  profileOf(analysis[m].user)),
             ![m].pc = "findMeal"]
    /\ UNCHANGED <<mealDb, userDb, feedback, writeLog>>
    /\ UNCHANGED besidesMeal

\* await googleVisionService.analyzeMealImage rejects
VisionThrows(m) ==
    /\ analysis[m].pc = "vision"
    /\ analysis' = [analysis EXCEPT ![m] = thrown(@, visionError)]
    /\ UNCHANGED <<mealDb, userDb, feedback, writeLog>>
    /\ UNCHANGED besidesMeal

\* await Meal.findById(mealId) in the try block: the document, null (return)
\* or a rejection
FindMeal(m) ==
    /\ analysis[m].pc = "findMeal"
    /\ \/ /\ mealDb[m].exists
          /\ analysis' = [analysis EXCEPT ![m].meal = mealDb[m].doc,
                                          ![m].pc = "saveResult"]
       \/ /\ ~mealDb[m].exists
          /\ analysis' = [analysis EXCEPT ![m] = finished(@)]
       \/ analysis' = [analysis EXCEPT ![m] = thrown(@, databaseError)]
    /\ UNCHANGED <<mealDb, userDb, feedback, writeLog>>
    /\ UNCHANGED besidesMeal

\* a reading of the save of the result that stores the whole document,
\* creating it when it is gone
SaveResultUpserting(m) ==
    /\ analysis[m].pc = "saveResult"
    /\ LET changed == withAnalysis(analysis[m].meal, analysis[m].analysisResults)
       IN  \/ /\ mealDb' = [mealDb EXCEPT ![m] =
                               [exists |-> TRUE, doc |-> preSave(changed)]]
              /\ writeLog' = [writeLog EXCEPT ![m] = Append(@, "completed")]
              /\ analysis' = [analysis EXCEPT ![m] = saved(@)]
           \/ /\ analysis' = [analysis EXCEPT ![m] = thrown(@, databaseError)]
              /\ UNCHANGED <<mealDb, writeLog>>
    /\ UNCHANGED <<userDb, feedback>>
    /\ UNCHANGED besidesMeal

\* meal.aiAnalysis = {...}; await meal.save().  The save stores the changed
\* paths, or rejects; on a document deleted meanwhile it stores nothing and
\* either rejects or resolves, depending on the Mongoose version.
SaveResult(m) ==
    /\ analysis[m].pc = "saveResult"
    /\ LET changed == withAnalysis(analysis[m].meal, analysis[m].analysisResults)
       IN  \/ /\ mealDb[m].exists
              /\ mealDb' = [mealDb EXCEPT ![m].doc =
                               savedOver(@, analysis[m].meal, changed)]
              /\ writeLog' = [writeLog EXCEPT ![m] = Append(@, "completed")]
              /\ analysis' = [analysis EXCEPT ![m] = saved(@)]
           \/ /\ ~mealDb[m].exists
              /\ analysis' = [analysis EXCEPT ![m] = saved(@)]
              /\ UNCHANGED <<mealDb, writeLog>>
           \/ /\ analysis' = [analysis EXCEPT ![m] = thrown(@, databaseError)]
              /\ UNCHANGED <<mealDb, writeLog>>
    /\ UNCHANGED <<userDb, feedback>>
    /\ UNCHANGED besidesMeal

\* await user.addPoints(10): this.points += 10, then save, which stores the
\* points or rejects
AddPoints(m) ==
    /\ analysis[m].pc = "addPoints"
    /\ LET user == [analysis[m].user EXCEPT !.points = @ + 10]
       IN  \/ /\ userDb' = [userDb EXCEPT ![analysis[m].userId].points = user.points]
              /\ analysis' = [analysis EXCEPT ![m].user = user,
                                              ![m].pc = "achievements"]
           \/ /\ analysis' = [analysis EXCEPT ![m] = thrown(@, databaseError)]
              /\ UNCHANGED userDb
    /\ UNCHANGED <<mealDb, feedback, writeLog>>
    /\ UNCHANGED besidesMeal

\* await checkAndUnlockAchievements(user): it catches its own errors
CheckAchievements(m) ==
    /\ analysis[m].pc = "achievements"
    /\ \E failAt \in 0..3 :
         LET start == analysis[m].user
             r == unlockFrom(start, start, 1, failAt)
         IN  /\ userDb' = [userDb EXCEPT
                    ![analysis[m].userId].points =
                        IF r.saved.points # start.points THEN r.saved.points ELSE @,
                    ![analysis[m].userId].achievements =
                        IF r.saved.achievements # start.achievements
                        THEN r.saved.achievements ELSE @]
             /\ analysis' = [analysis EXCEPT ![m] = finished(@)]
    /\ UNCHANGED <<mealDb, feedback, writeLog>>
    /\ UNCHANGED besidesMeal

\* await Meal.findById(mealId) in the catch block
CatchFind(m) ==
    /\ analysis[m].pc = "catchFind"
    /\ \/ /\ mealDb[m].exists
          /\ analysis' = [analysis EXCEPT ![m].meal = mealDb[m].doc,
                                          ![m].pc = "catchSave"]
       \/ /\ ~mealDb[m].exists
          /\ analysis' = [analysis EXCEPT ![m] = finished(@)]
       \/ analysis' = [analysis EXCEPT ![m] = [finished(@) EXCEPT !.updateError = TRUE]]
    /\ UNCHANGED <<mealDb, userDb, feedback, writeLog>>
    /\ UNCHANGED besidesMeal

\* a reading in which the catch block only logs the error
CatchSaveLogOnly(m) ==
    /\ analysis[m].pc = "catchSave"
    /\ analysis' = [analysis EXCEPT ![m] = finished(@)]
    /\ UNCHANGED <<mealDb, writeLog, userDb, feedback>>
    /\ UNCHANGED besidesMeal

\* analysisStatus = 'failed'; analysisError = error.message; await meal.save()
CatchSave(m) ==
    /\ analysis[m].pc = "catchSave"
    /\ LET changed == withFailure(analysis[m].meal, analysis[m].error)
       IN  \/ /\ mealDb[m].exists
              /\ mealDb' = [mealDb EXCEPT ![m].doc =
                               savedOver(@, analysis[m].meal, changed)]
              /\ writeLog' = [writeLog EXCEPT ![m] = Append(@, "failed")]
              /\ analysis' = [analysis EXCEPT ![m] = finished(@)]
           \/ /\ ~mealDb[m].exists
              /\ analysis' = [analysis EXCEPT ![m] = finished(@)]
              /\ UNCHANGED <<mealDb, writeLog>>
           \/ /\ analysis' = [analysis EXCEPT ![m] =
                                  [finished(@) EXCEPT !.updateError = TRUE]]
              /\ UNCHANGED <<mealDb, writeLog>>
    /\ UNCHANGED <<userDb, feedback>>
    /\ UNCHANGED besidesMeal

\* DELETE /meal/:mealId by user u: findOne({_id, userId}) finds the meal,
\* findByIdAndDelete removes it
DeleteMeal(m, u) ==
    /\ mealDb[m].exists
    /\ mealDb[m].doc.userId = u
    /\ mealDb' = [mealDb EXCEPT ![m] = noMeal]
    /\ UNCHANGED <<userDb, analysis, feedback, writeLog>>
    /\ UNCHANGED besidesMeal

\* POST /feedback/:mealId by user u, up to its save: findOne({_id, userId})
FeedbackFind(m, u) ==
    /\ feedback[m].pc = "idle"
    /\ mealDb[m].exists
    /\ mealDb[m].doc.userId = u
    /\ feedback' = [feedback EXCEPT ![m].pc = "save", ![m].userId = u,
                                    ![m].meal = mealDb[m].doc]
    /\ UNCHANGED <<mealDb, userDb, analysis, writeLog>>
    /\ UNCHANGED besidesMeal

\* meal.userFeedback = {...}; await meal.save()
FeedbackSave(m) ==
    /\ feedback[m].pc = "save"
    /\ LET changed == [feedback[m].meal EXCEPT !.userFeedback = TRUE]
       IN  \/ /\ mealDb[m].exists
              /\ mealDb' = [mealDb EXCEPT ![m].doc =
                               savedOver(@, feedback[m].meal, changed)]
           \/ UNCHANGED mealDb
    /\ feedback' = [feedback EXCEPT ![m].pc = "idle", ![m].meal = newMeal("u1"),
                                    ![m].userId = "u1"]
    /\ UNCHANGED <<userDb, analysis, writeLog>>
    /\ UNCHANGED besidesMeal

Next ==
    \/ \E m \in MealIds, u \in Users : SubmitMeal(m, u)
    \/ \E m \in MealIds : VisionReturns(m)
    \/ \E m \in MealIds : VisionThrows(m)
    \/ \E m \in MealIds : FindMeal(m)
    \/ \E m \in MealIds : SaveResult(m)
    \/ \E m \in MealIds : AddPoints(m)
    \/ \E m \in MealIds : CheckAchievements(m)
    \/ \E m \in MealIds : CatchFind(m)
    \/ \E m \in MealIds : CatchSave(m)
    \/ \E m \in MealIds, u \in Users : DeleteMeal(m, u)
    \/ \E m \in MealIds, u \in Users : FeedbackFind(m, u)
    \/ \E m \in MealIds : FeedbackSave(m)

Spec == Init /\ [][Next]_vars

(***************************************************************************)
(* Claims about getNutritionalData, checked under SpecNutri                *)
(***************************************************************************)
\* the value a resolved per-food vector holds for a key, absent counting as 0
resolvedValue(nutr, k) == IF k \in DOMAIN nutr THEN nutr[k] ELSE 0

\* the food's confidence, taken as 1 when absent
confidenceOrOne(food) ==
    IF "confidence" \in DOMAIN food THEN food.confidence ELSE 100

RECURSIVE weightedSum(_, _)
weightedSum(k, n) ==
    IF n = 0 THEN 0
    ELSE weightedSum(k, n - 1) +
         resolvedValue(nutritionResults[n].value, k) * confidenceOrOne(foods[n])

\* C6: every key of the returned meal vector is the sum over all foods of the
\* food's resolved value for the key times the food's confidence, taken as 1
\* when absent (so confidence 0.5 contributes half of confidence 1.0).
C6_ConfidenceWeightedSum ==
    nuPc = "combined" =>
        \A k \in NutrientKeys : combinedNutrition[k] = weightedSum(k, Len(foods))

(***************************************************************************)
(* Claims about getLocalNutritionData, checked under SpecLocal             *)
(***************************************************************************)
\* b occurs in a as a run of consecutive letters
occursIn(b, a) ==
    \E i \in 1..(Len(a) - Len(b) + 1) :
        \A j \in 1..Len(b) : a[i + j - 1] = b[j]

\* the table entries a name resolves to by the specification: the name
\* contains the key or the key contains the name, letter case ignored
matchingEntries(name) ==
    LET lowered == toLowerCase(name)
    IN  { i \in 1..Len(nutritionDB) :
            LET key == toLowerCase(nutritionDB[i].key)
            IN  occursIn(key, lowered) \/ occursIn(lowered, key) }

\* the fixed default vector, in tenths
DefaultVector ==
    [k \in NutrientKeys |->
        CASE k = "calories" -> 500
          [] k = "protein" -> 20
          [] k = "carbs" -> 80
          [] k \in {"fat", "fiber", "sugar"} -> 10
          [] k = "sodium" -> 100
          [] k = "potassium" -> 500
          [] OTHER -> 0]

\* C18: getLocalNutritionData returns the first table entry, in table
\* order, whose key the name contains or whose key contains the name, letter
\* case ignored, and the fixed default vector (other keys counting as 0)
\* when no entry matches.
C18_LocalTableMatch ==
    nuPc = "local" =>
      LET matches == matchingEntries(foods[1].name)
          value == nutritionResults[1].value
      IN  IF matches = {}
          THEN \A k \in NutrientKeys : resolvedValue(value, k) = DefaultVector[k]
          ELSE \E i \in matches :
                  /\ \A j \in matches : i <= j
                  /\ value = nutritionDB[i].nutrition

\* "Eg" is contained in the keys vegetables and egg and resolved to the
\* earlier one, vegetables
C18_Witness ==
    /\ nuPc = "local"
    /\ foods[1].name = <<"E", "g">>
    /\ nutritionResults[1].value["calories"] = 250
    /\ nutritionResults[1].value["potassium"] = 2000

(***************************************************************************)
(* Claims about the lookups of getNutritionalData, checked under SpecNutri *)
(***************************************************************************)
\* the local-fallback vector of a name: the table match or the default
localFallbackVector(name) ==
    LET matches == matchingEntries(name)
    IN  IF matches = {} THEN DefaultVector
        ELSE nutritionDB[CHOOSE i \in matches : \A j \in matches : i <= j].nutrition

\* two per-food vectors agree on every key, absent keys counting as 0
sameVector(a, b) ==
    \A k \in NutrientKeys : resolvedValue(a, k) = resolvedValue(b, k)

\* the lookup failed, timed out or answered without nutrient data
withoutData(outcome) ==
    outcome.kind = "error" \/ ~outcome.data.hasTotalNutrients

\* the sequence without its i-th element
removeAt(seq, i) == SubSeq(seq, 1, i - 1) \o SubSeq(seq, i + 1, Len(seq))

\* what food i adds to the combined vector, key by key
contribution(i) ==
    LET rest == combineNutrition(removeAt(nutritionResults, i), removeAt(foods, i))
    IN  [k \in NutrientKeys |-> combinedNutrition[k] - rest[k]]

\* the vectors the API answers with in the model's outcomes
lookedUpVectors ==
    { [k \in NutrientKeys |->
          quantityOrZero(outcome.data.totalNutrients, edamamCode[k])] :
        outcome \in { o \in ApiOutcomes : ~withoutData(o) } }

C16_AllKeysNonNegative ==
    /\ nuPc = "combined" =>
          /\ DOMAIN combinedNutrition = NutrientKeys
          /\ Cardinality(DOMAIN combinedNutrition) = 15
          /\ \A k \in NutrientKeys :
                /\ combinedNutrition[k] >= 0
                /\ (\A i \in 1..Len(foods) :
                       resolvedValue(nutritionResults[i].value, k) = 0)
                   => combinedNutrition[k] = 0
    /\ nuPc # "idle" =>
          LET total == getFallbackNutrition(foods)
          IN  /\ DOMAIN total = NutrientKeys
              /\ \A k \in NutrientKeys : total[k] >= 0

\* a food resolved from the local table, which has no iron key: iron is 0
\* and calories are positive in the combined vector
C16_Witness ==
    /\ nuPc = "combined"
    /\ Len(foods) >= 1
    /\ "iron" \notin DOMAIN nutritionResults[1].value
    /\ combinedNutrition["iron"] = 0
    /\ combinedNutrition["calories"] > 0

(***************************************************************************)
(* Claims about analyzeHealthRisks, checked under SpecRisk                 *)
(***************************************************************************)
\* the rule table of the specification, as data
RuleTable ==
    { [condition |-> "diabetes", nutrient |-> "carbs", threshold |-> 60,
       severity |-> "warning", type |-> "high_carbs"],
      [condition |-> "diabetes", nutrient |-> "sugar", threshold |-> 15,
       severity |-> "danger", type |-> "high_sugar"],
      [condition |-> "bp", nutrient |-> "sodium", threshold |-> 500,
       severity |-> "danger", type |-> "high_sodium"],
      [condition |-> "kidney", nutrient |-> "potassium", threshold |-> 400,
       severity |-> "danger", type |-> "high_potassium"],
      [condition |-> "cholesterol", nutrient |-> "fat", threshold |-> 20,
       severity |-> "warning", type |-> "high_fat"] }

\* the user's set of condition codes; empty without a profile or a list
conditionSet ==
    IF userProfile.present /\ userProfile.hasConditions
    THEN { userProfile.healthConditions[i].condition :
             i \in 1..Len(userProfile.healthConditions) }
    ELSE {}

findingsOfType(t) ==
    { i \in 1..Len(healthAnalysis.risks) : healthAnalysis.risks[i].type = t }

ruleTriggered(r) ==
    r.condition \in conditionSet /\ nutrition[r.nutrient] > r.threshold * 1000

\* C1: a rule of the table yields a finding if and only if its condition is
\* in the user's set and the nutrient is strictly above the threshold; a
\* triggered rule yields exactly one finding with the rule's type, severity,
\* the measured value and the threshold; a value equal to the threshold
\* yields none, and no finding is of a type outside the table.
C1_RuleTable ==
    riskPc # "input" =>
      /\ \A r \in RuleTable :
           /\ Cardinality(findingsOfType(r.type)) = (IF ruleTriggered(r) THEN 1 ELSE 0)
           /\ \A i \in findingsOfType(r.type) :
                healthAnalysis.risks[i] =
                    [type |-> r.type, severity |-> r.severity,
                     value |-> nutrition[r.nutrient], threshold |-> r.threshold]
      /\ \A i \in 1..Len(healthAnalysis.risks) :
           \E r \in RuleTable : healthAnalysis.risks[i].type = r.type

\* a bp and diabetes user: sodium exactly 500 gave no finding while carbs 70
\* gave the high_carbs warning
C1_Witness ==
    /\ riskPc = "analyzed"
    /\ {"bp", "diabetes"} \subseteq conditionSet
    /\ nutrition["sodium"] = 500000
    /\ findingsOfType("high_sodium") = {}
    /\ nutrition["carbs"] = 70000
    /\ Cardinality(findingsOfType("high_carbs")) = 1

caloriesOfType(list) ==
    { i \in 1..Len(list) : list[i].type = "high_calories" }

\* C3: whatever the profile (matching conditions, empty or missing list, or
\* no profile at all), the warnings hold exactly one high_calories entry if
\* calories > 600 and none otherwise, and the risks hold none.
C3_CalorieCheckUnconditional ==
    riskPc # "input" =>
      /\ Cardinality(caloriesOfType(healthAnalysis.warnings)) =
            (IF nutrition["calories"] > 600000 THEN 1 ELSE 0)
      /\ caloriesOfType(healthAnalysis.risks) = {}

\* the finding types in the order of the rule table
RuleOrder ==
    <<"high_carbs", "high_sugar", "high_sodium", "high_potassium", "high_fat">>

rankOf(type) == CHOOSE i \in 1..Len(RuleOrder) : RuleOrder[i] = type

\* the profile with its condition list rearranged by the permutation p
rearranged(profile, p) ==
    [profile EXCEPT !.healthConditions =
        [i \in 1..Len(profile.healthConditions) |-> profile.healthConditions[p[i]]]]

\* C14: the findings are in rule-table order (high_carbs, high_sugar,
\* high_sodium, high_potassium, high_fat) and are the same for every order of
\* the profile's conditions; a user with exactly diabetes and bp and carbs 70,
\* sugar 20, sodium 600 gets high_carbs warning, high_sugar danger,
\* high_sodium danger, in that order, and nothing else.
C14_RuleTableOrder ==
    riskPc # "input" =>
      LET risks == healthAnalysis.risks
      IN  /\ \A i, j \in 1..Len(risks) :
                i < j => rankOf(risks[i].type) < rankOf(risks[j].type)
          /\ (userProfile.present /\ userProfile.hasConditions) =>
                \A p \in Permutations(1..Len(userProfile.healthConditions)) :
                    analyzeHealthRisks(nutrition, rearranged(userProfile, p)).risks
                        = risks
          /\ (/\ conditionSet = {"diabetes", "bp"}
              /\ nutrition["carbs"] = 70000
              /\ nutrition["sugar"] = 20000
              /\ nutrition["sodium"] = 600000) =>
                [i \in 1..Len(risks) |-> <<risks[i].type, risks[i].severity>>] =
                    << <<"high_carbs", "warning">>, <<"high_sugar", "danger">>,
                       <<"high_sodium", "danger">> >>

\* the profile lists bp before diabetes; carbs 70, sugar 20 and sodium 600
\* gave three findings
C14_Witness ==
    /\ riskPc = "analyzed"
    /\ userProfile.present /\ userProfile.hasConditions
    /\ userProfile.healthConditions =
           << [condition |-> "bp"], [condition |-> "diabetes"] >>
    /\ nutrition["carbs"] = 70000
    /\ nutrition["sugar"] = 20000
    /\ nutrition["sodium"] = 600000
    /\ Len(healthAnalysis.risks) = 3

\* C19: for a profile that is absent, or whose healthConditions is missing
\* or empty, analyzeHealthRisks returns (it is not stuck) with an empty
\* findings list and generateRecommendations returns the empty list.
C19_ProfileOptional ==
    (\/ ~userProfile.present
     \/ ~userProfile.hasConditions
     \/ userProfile.healthConditions = <<>>) =>
        /\ riskPc = "input" => ENABLED AnalyzeHealthRisks
        /\ riskPc # "input" => healthAnalysis.risks = <<>>
        /\ riskPc = "analyzed" => ENABLED GenerateRecommendations
        /\ riskPc = "recommended" => recommendations = <<>>

\* no profile at all, a meal above the carbs and sugar thresholds: analysed
\* and recommended with nothing found
C19_Witness ==
    /\ ~userProfile.present
    /\ nutrition["carbs"] = 70000
    /\ nutrition["sugar"] = 20000
    /\ riskPc = "recommended"
    /\ healthAnalysis.risks = <<>>
    /\ recommendations = <<>>

SupportedConditions == {"diabetes", "bp", "cholesterol", "kidney"}

\* the condition list with unsupported codes removed and later duplicates of
\* a code dropped
RECURSIVE collapsed(_, _)
collapsed(conditions, seen) ==
    IF conditions = <<>> THEN <<>>
    ELSE LET code == Head(conditions).condition
         IN  IF code \in SupportedConditions \ seen
             THEN <<Head(conditions)>> \o
                  collapsed(Tail(conditions), seen \cup {code})
             ELSE collapsed(Tail(conditions), seen)

\* C20: the findings and warnings for a condition list are those for the list
\* with unsupported codes removed and duplicates collapsed; a list of
\* unsupported codes only gives no finding, and no finding type occurs twice.
C20_UnsupportedAndDuplicatesInert ==
    (riskPc # "input" /\ userProfile.present /\ userProfile.hasConditions) =>
      LET conditions == userProfile.healthConditions
          risks == healthAnalysis.risks
      IN  /\ healthAnalysis =
                analyzeHealthRisks(nutrition,
                    [userProfile EXCEPT !.healthConditions = collapsed(conditions, {})])
          /\ collapsed(conditions, {}) = <<>> => risks = <<>>
          /\ \A i, j \in 1..Len(risks) : risks[i].type = risks[j].type => i = j

\* diabetes listed twice: carbs 70 gave one high_carbs finding
C20_Witness ==
    /\ riskPc = "analyzed"
    /\ userProfile.present /\ userProfile.hasConditions
    /\ userProfile.healthConditions =
           << [condition |-> "diabetes"], [condition |-> "diabetes"] >>
    /\ nutrition["carbs"] = 70000
    /\ Cardinality(findingsOfType("high_carbs")) = 1

(***************************************************************************)
(* Claims about generateRecommendations, checked under SpecRecommend       *)
(***************************************************************************)
\* the priority table of the specification
PriorityTable ==
    [t \in {"high_carbs", "high_sugar", "high_sodium", "high_potassium", "high_fat"} |->
        IF t \in {"high_carbs", "high_fat"} THEN "medium" ELSE "high"]

inPriorityTable(risk) == risk.type \in DOMAIN PriorityTable

\* C15: the recommendations are, in the order of the findings, one entry of
\* type dietary with the table's priority per finding whose type is in the
\* table (repeated types included, other types skipped); they are the same
\* for every profile, and as many as the findings when every type is in the
\* table.
C15_OneRecommendationPerFinding ==
    riskPc = "recommended" =>
      LET tabled == SelectSeq(healthAnalysis.risks, inPriorityTable)
      IN  /\ Len(recommendations) = Len(tabled)
          /\ \A i \in 1..Len(tabled) :
                recommendations[i] =
                    [type |-> "dietary", priority |-> PriorityTable[tabled[i].type]]
          /\ \A profile \in RecommendProfiles :
                generateRecommendations(healthAnalysis, profile) = recommendations
          /\ Len(tabled) = Len(healthAnalysis.risks) =>
                Len(recommendations) = Len(healthAnalysis.risks)

\* high_sugar, a type outside the table, high_sugar again: two
\* recommendations of priority high
C15_Witness ==
    /\ riskPc = "recommended"
    /\ [i \in 1..Len(healthAnalysis.risks) |-> healthAnalysis.risks[i].type] =
           <<"high_sugar", "high_calories", "high_sugar">>
    /\ recommendations =
           << [type |-> "dietary", priority |-> "high"],
              [type |-> "dietary", priority |-> "high"] >>

(***************************************************************************)
(* Claims about extractFoodItems, checked under SpecExtract                *)
(***************************************************************************)
Range(s) == { s[i] : i \in 1..Len(s) }

\* the label and object detections of the response as (name, score, source)
responseDetections ==
    { [name |-> l.description, score |-> l.score, source |-> "label"] :
        l \in Range(labelAnnotations) } \cup
    { [name |-> o.name, score |-> o.score, source |-> "object"] :
        o \in Range(localizedObjectAnnotations) }

qualifiesStrict(d) == d.score > 70 /\ isFoodRelated(d.name)

qualifiesAtLeast(d) == d.score >= 70 /\ isFoodRelated(d.name)

returnedNames == { item.name : item \in Range(recognizedFoods) }

\* what C7 says of a returned sequence, given the detections that qualify
keptExactly(qualifying) ==
    LET names == { toLowerCase(d.name) : d \in qualifying }
    IN  /\ \A item \in Range(recognizedFoods) :
             \E d \in qualifying :
                /\ toLowerCase(d.name) = item.name
                /\ d.score = item.confidence /\ d.source = item.source
        /\ Cardinality(names) <= MaxFoods => names \subseteq returnedNames

\* C7 as stated: a label or object detection is kept (its lowercased name is
\* returned, the 10-item cap permitting) if and only if its confidence is
\* >= 0.7 and its name contains a vocabulary term; text never yields an item.
C7_KeptIffAtLeast ==
    exPc = "extracted" =>
        keptExactly({ d \in responseDetections : qualifiesAtLeast(d) })

\* C7 amended: a label or object detection is kept (its lowercased name is
\* returned, the 10-item cap permitting) if and only if its confidence is
\* strictly greater than 0.7 and its name contains a vocabulary term; every
\* returned item stems from such a label or object detection, never from text.
C7_KeptIffStrict ==
    exPc = "extracted" =>
        keptExactly({ d \in responseDetections : qualifiesStrict(d) })

\* a food-related detection at exactly 0.7 was dropped, one at 0.71 was kept,
\* and the response carried a text detection
C7_Witness ==
    /\ exPc = "extracted"
    /\ textAnnotations # <<>>
    /\ \E d \in responseDetections :
         /\ d.score = 70 /\ isFoodRelated(d.name)
         /\ toLowerCase(d.name) \notin returnedNames
    /\ \E item \in Range(recognizedFoods) : item.confidence = 71

\* the qualifying detections in encounter order: labels, then objects
qualifyingInOrder ==
    LET labs == SelectSeq(labelAnnotations, keepLabel)
        objs == SelectSeq(localizedObjectAnnotations, keepObject)
    IN  [i \in 1..Len(labs) |->
            [name |-> toLowerCase(labs[i].description),
             confidence |-> labs[i].score, source |-> "label"]] \o
        [i \in 1..Len(objs) |->
            [name |-> toLowerCase(objs[i].name),
             confidence |-> objs[i].score, source |-> "object"]]

\* C8: the returned names are pairwise distinct and lowercase, and the item
\* kept for a name is the first qualifying detection of that name, labels
\* being processed before localized objects.
C8_UniqueFirstWins ==
    exPc = "extracted" =>
      LET q == qualifyingInOrder
      IN  /\ \A i, j \in 1..Len(recognizedFoods) :
                i # j => recognizedFoods[i].name # recognizedFoods[j].name
          /\ \A item \in Range(recognizedFoods) :
                /\ \A c \in Range(item.name) : c \notin Range(UpperCase)
                /\ \E i \in 1..Len(q) :
                      /\ q[i].name = item.name
                      /\ \A j \in 1..(i - 1) : q[j].name # item.name
                      /\ q[i].confidence = item.confidence
                      /\ q[i].source = item.source

\* a label and a higher-scored object share a name case-insensitively and the
\* label is the one returned
C8_Witness ==
    /\ exPc = "extracted"
    /\ \E l \in Range(labelAnnotations), o \in Range(localizedObjectAnnotations) :
         /\ keepLabel(l) /\ keepObject(o)
         /\ l.description # o.name
         /\ toLowerCase(l.description) = toLowerCase(o.name)
         /\ o.score > l.score
         /\ \E item \in Range(recognizedFoods) :
              /\ item.name = toLowerCase(o.name)
              /\ item.source = "label" /\ item.confidence = l.score

uniqueQualifying ==
    removeDuplicates(collectFoodItems(labelAnnotations, localizedObjectAnnotations))

\* C9: the returned sequence is ordered by confidence non-increasing, has at
\* most 10 items, and consists of the 10 highest-confidence items of the
\* deduplicated qualifying set (all of them when there are 10 or fewer).
C9_SortedTopTen ==
    exPc = "extracted" =>
      LET unique == uniqueQualifying
      IN  /\ \A i \in 1..(Len(recognizedFoods) - 1) :
                recognizedFoods[i].confidence >= recognizedFoods[i + 1].confidence
          /\ Len(recognizedFoods) <= 10
          /\ Len(recognizedFoods) = (IF Len(unique) <= 10 THEN Len(unique) ELSE 10)
          /\ Range(recognizedFoods) \subseteq Range(unique)
          /\ \A out \in Range(unique) \ Range(recognizedFoods) :
                \A item \in Range(recognizedFoods) :
                    item.confidence >= out.confidence

\* more than 10 unique foods qualified, the cut dropped one and the order of
\* the response was not already the order returned
C9_Witness ==
    /\ exPc = "extracted"
    /\ Len(recognizedFoods) = 10
    /\ LET unique == uniqueQualifying
       IN  /\ Range(unique) \ Range(recognizedFoods) # {}
           /\ recognizedFoods # SubSeq(unique, 1, 10)
    /\ \E i \in 1..9 : recognizedFoods[i].confidence > recognizedFoods[i + 1].confidence

(***************************************************************************)
(* Claims about the stored meal record, checked under Spec                 *)
(***************************************************************************)
\* the writes of an analysis outcome (completed or failed) meal m has received
outcomeWrites(m) ==
    Cardinality({ i \in 1..Len(writeLog[m]) :
                    writeLog[m][i] \in {"completed", "failed"} })

\* the analysis result of meal m has been recorded
findingsRecorded(m) ==
    \E i \in 1..Len(writeLog[m]) : writeLog[m][i] = "completed"

\* C2: the outcome of an analysis is never written to the meal's record
\* twice, and an analysis that has returned, its meal still stored and the
\* update of the record not having failed, has written it exactly once.
C2_OutcomeWrittenOnce ==
    \A m \in MealIds :
        /\ outcomeWrites(m) <= 1
        /\ (/\ analysis[m].pc = "done"
            /\ mealDb[m].exists
            /\ ~analysis[m].updateError) => outcomeWrites(m) = 1

\* the category of doc is the one the severities of its healthRisks stand for
categoryFromSeverities(doc) ==
    LET has(severity) == \E i \in 1..Len(doc.healthRisks) :
                             doc.healthRisks[i].severity = severity
    IN  /\ has("danger") => doc.category = "unhealthy"
        /\ (~has("danger") /\ has("warning")) => doc.category = "moderate"
        /\ doc.healthRisks = <<>> => doc.category = "healthy"

\* C4: after every step, a stored meal whose findings have been recorded has
\* the category its healthRisks stand for (unhealthy with a danger, else
\* moderate with a warning, else healthy for the empty list), and a step that
\* leaves the healthRisks of such a meal unchanged leaves its category
\* unchanged.
C4_CategoryFromSeverities ==
    [][\A m \in MealIds :
          (mealDb'[m].exists /\ findingsRecorded(m)') =>
              /\ categoryFromSeverities(mealDb'[m].doc)
              /\ (/\ mealDb[m].exists
                  /\ findingsRecorded(m)
                  /\ mealDb'[m].doc.healthRisks = mealDb[m].doc.healthRisks)
                 => mealDb'[m].doc.category = mealDb[m].doc.category]_vars

\* a meal with a danger and a warning was recorded as completed, then saved
\* again as failed with the same findings, and is unhealthy
C4_Witness ==
    \E m \in MealIds :
        /\ mealDb[m].exists
        /\ writeLog[m] = <<"processing", "completed", "failed">>
        /\ severityCount(mealDb[m].doc.healthRisks, "danger") > 0
        /\ severityCount(mealDb[m].doc.healthRisks, "warning") > 0
        /\ mealDb[m].doc.category = "unhealthy"

\* C5: a stored meal whose findings have not been recorded has the category
\* unknown.
C5_UnknownUntilEvaluated ==
    \A m \in MealIds :
        (mealDb[m].exists /\ ~findingsRecorded(m)) =>
            mealDb[m].doc.category = "unknown"

\* C10: the stored status of a meal is written at most twice, and a stored
\* status of completed or failed is never changed by a step.
C10_StatusFinal ==
    [][\A m \in MealIds :
          /\ Len(writeLog'[m]) <= 2
          /\ (/\ mealDb[m].exists
              /\ mealDb'[m].exists
              /\ mealDb[m].doc.analysisStatus \in {"completed", "failed"})
             => mealDb'[m].doc.analysisStatus = mealDb[m].doc.analysisStatus]_vars

\* C11: when the catch block has stored the failure of a vision call, the
\* record has status failed, a non-empty analysisError and no recognized
\* foods, nutrition values, findings or recommendations; and a stored status
\* of failed always comes with a non-empty analysisError.
C11_VisionFailureRecorded ==
    [][\A m \in MealIds :
          /\ (/\ analysis[m].pc = "catchSave"
              /\ analysis[m].error = visionError
              /\ analysis'[m].pc = "done"
              /\ ~analysis'[m].updateError
              /\ mealDb'[m].exists) =>
                 /\ mealDb'[m].doc.analysisStatus = "failed"
                 /\ mealDb'[m].doc.analysisError # ""
                 /\ mealDb'[m].doc.recognizedFoods = <<>>
                 /\ mealDb'[m].doc.nutrition = [k \in NutrientKeys |-> 0]
                 /\ mealDb'[m].doc.healthRisks = <<>>
                 /\ mealDb'[m].doc.recommendations = <<>>
          /\ (mealDb'[m].exists /\ mealDb'[m].doc.analysisStatus = "failed") =>
                 mealDb'[m].doc.analysisError # ""]_vars

\* the vision call threw and the failure was stored with its message
C11_Witness ==
    \E m \in MealIds :
        /\ mealDb[m].exists
        /\ analysis[m].pc = "done"
        /\ writeLog[m] = <<"processing", "failed">>
        /\ mealDb[m].doc.analysisStatus = "failed"
        /\ mealDb[m].doc.analysisError = visionError
        /\ mealDb[m].doc.recognizedFoods = <<>>

\* C12: while the record of a submitted meal is gone, no step creates or
\* writes a record for it; an analysis that has returned does nothing more,
\* and none is started again.
C12_DeletedMealStaysDeleted ==
    [][\A m \in MealIds :
          /\ (analysis[m].pc # "idle" /\ ~mealDb[m].exists) =>
                 /\ ~mealDb'[m].exists
                 /\ writeLog'[m] = writeLog[m]
          /\ analysis[m].pc = "done" => analysis'[m] = analysis[m]
          /\ analysis'[m].pc = "vision" => analysis[m].pc \in {"idle", "vision"}]_vars

\* the meal was deleted while it was analysed; the analysis has returned
\* and only the submission was ever written
C12_Witness ==
    \E m \in MealIds :
        /\ ~mealDb[m].exists
        /\ analysis[m].pc = "done"
        /\ ~analysis[m].updateError
        /\ writeLog[m] = <<"processing">>

\* the detections of a vision response as (name, score)
detectionsOf(response) ==
    { [name |-> l.description, score |-> l.score] :
        l \in Range(response.labelAnnotations) } \cup
    { [name |-> o.name, score |-> o.score] :
        o \in Range(response.localizedObjectAnnotations) }

\* the result of an analysis that found no food
emptyCompleted ==
    [recognizedFoods |-> <<>>, nutrition |-> [k \in NutrientKeys |-> 0],
     healthRisks |-> <<>>, warnings |-> <<>>, recommendations |-> <<>>,
     analysisStatus |-> "completed"]

\* C17: an analysis that returns no food returns the completed result with
\* all-zero nutrition and no findings, warnings or recommendations, and so
\* does the analysis of every response without a qualifying detection, for
\* the user's profile and every lookup outcome; once that result is saved
\* the stored meal is completed, empty and of category healthy.
C17_NoFoodCompletesHealthy ==
    [][\A m \in MealIds :
          /\ (/\ analysis[m].pc = "vision"
              /\ analysis'[m].pc = "findMeal"
              /\ analysis'[m].analysisResults.recognizedFoods = <<>>) =>
                 /\ analysis'[m].analysisResults = emptyCompleted
                 /\ \A response \in VisionSamples, outcome \in LookupOutcomes :
                       (\A d \in detectionsOf(response) : ~qualifiesStrict(d)) =>
                           analyzeMealImage(response, TRUE,
                                            [i \in 1..MaxFoods |-> outcome],
                                            profileOf(analysis[m].user))
                               = emptyCompleted
          /\ (/\ analysis[m].pc = "saveResult"
              /\ analysis[m].analysisResults.recognizedFoods = <<>>
              /\ analysis'[m].pc = "addPoints"
              /\ mealDb'[m].exists) =>
                 /\ mealDb'[m].doc.analysisStatus = "completed"
                 /\ mealDb'[m].doc.recognizedFoods = <<>>
                 /\ mealDb'[m].doc.nutrition = [k \in NutrientKeys |-> 0]
                 /\ mealDb'[m].doc.healthRisks = <<>>
                 /\ mealDb'[m].doc.recommendations = <<>>
                 /\ mealDb'[m].doc.category = "healthy"]_vars

\* a meal of the user with kidney disease and high cholesterol was analysed
\* without any food found and is stored completed and healthy
C17_Witness ==
    \E m \in MealIds :
        /\ mealDb[m].exists
        /\ mealDb[m].doc.userId = "u1"
        /\ writeLog[m] = <<"processing", "completed">>
        /\ mealDb[m].doc.analysisStatus = "completed"
        /\ mealDb[m].doc.recognizedFoods = <<>>
        /\ mealDb[m].doc.category = "healthy"

(***************************************************************************)
(* Specification SpecScenario: the analysis of an image of rice and        *)
(* chicken, from submission to the saved record                            *)
(***************************************************************************)
\* the registered users: u1 has declared kidney disease alone, u2 nothing
scenarioUsers ==
    [u \in Users |-> IF u = "u1" THEN newUser(<<kidney>>, 0)
                     ELSE newUser(<<>>, 0)]

\* the vision call detects rice with confidence 0.9 and chicken with 0.85
scenarioResponse ==
    [labelAnnotations |->
        << [description |-> <<"r","i","c","e">>, score |-> 90],
           [description |-> <<"c","h","i","c","k","e","n">>, score |-> 85] >>,
     localizedObjectAnnotations |-> <<>>]

\* what the nutrition API may answer for one of the two foods, in tenths:
\* 1.5 mg and 469 mg of potassium weigh 0.9 * 1.5 + 0.85 * 469 = 400 mg,
\* 470 mg lifts the sum above 400 mg; 350 kcal twice pass 600 kcal
potassiumData(k, kcal) ==
    [kind |-> "response",
     data |-> [hasTotalNutrients |-> TRUE,
               totalNutrients |-> [K |-> [quantity |-> k],
                                   ENERC_KCAL |-> [quantity |-> kcal]]]]

ScenarioOutcomes ==
    { o \in ApiOutcomes : o.kind = "error" }
    \cup { potassiumData(15, 1000), potassiumData(4690, 3500),
           potassiumData(4700, 3500) }

InitScenario ==
    /\ mealDb = [m \in MealIds |-> noMeal]
    /\ userDb = scenarioUsers
    /\ analysis = [m \in MealIds |-> idleAnalysis]
    /\ feedback = [m \in MealIds |-> idleFeedback]
    /\ writeLog = [m \in MealIds |-> <<>>]
    /\ ExtractIdle /\ RiskIdle /\ NutriIdle /\ ClientIdle

\* await googleVisionService.analyzeMealImage resolves for the image of rice
\* and chicken, each lookup having met its own outcome
ScenarioVisionReturns(m) ==
    /\ analysis[m].pc = "vision"
    /\ \E apiKey \in BOOLEAN, outcomes \in [1..2 -> ScenarioOutcomes] :
         analysis' = [analysis EXCEPT
             ![m].analysisResults =
                 analyzeMealImage(scenarioResponse, apiKey, outcomes,
                                  profileOf(analysis[m].user)),
             ![m].pc = "findMeal"]
    /\ UNCHANGED <<mealDb, userDb, feedback, writeLog>>
    /\ UNCHANGED besidesMeal

NextScenario ==
    \/ \E m \in MealIds, u \in Users : SubmitMeal(m, u)
    \/ \E m \in MealIds : ScenarioVisionReturns(m)
    \/ \E m \in MealIds : FindMeal(m)
    \/ \E m \in MealIds : SaveResult(m)
    \/ \E m \in MealIds : CatchFind(m)
    \/ \E m \in MealIds : CatchSave(m)
    \/ \E m \in MealIds, u \in Users : DeleteMeal(m, u)

SpecScenario == InitScenario /\ [][NextScenario]_vars

(***************************************************************************)
(* Claims about the analysis of rice and chicken, checked under            *)
(* SpecScenario                                                            *)
(***************************************************************************)
\* the analysis results a call holds after the vision analysis
heldResults(m) == analysis[m].pc \in {"findMeal", "saveResult"}

\* the meal record holds a completed analysis
completedRecord(m) ==
    mealDb[m].exists /\ mealDb[m].doc.analysisStatus = "completed"

potassiumFinding(value) == riskFinding("high_potassium", "danger", value, 400)

\* the findings and recommendations the scenario expects of a kidney
\* patient and of a user without conditions
scenarioExpected(userId, nutr, healthRisks, recs) ==
    IF userId = "u1" /\ nutr["potassium"] > milli(400)
    THEN /\ healthRisks = << potassiumFinding(nutr["potassium"]) >>
         /\ recs = << recommendation("high") >>
    ELSE /\ healthRisks = <<>>
         /\ recs = <<>>

\* C21: for rice (0.9) and chicken (0.85) and the kidney patient, combined
\* potassium above 400 gives exactly one finding (high_potassium, danger,
\* threshold 400), exactly one recommendation of priority high and the saved
\* category unhealthy; potassium of at most 400, or a user without
\* conditions, gives no finding and the category healthy
C21_RiceAndChicken ==
    \A m \in MealIds :
        /\ heldResults(m) =>
              LET r == analysis[m].analysisResults
              IN  /\ Len(r.recognizedFoods) = 2
                  /\ r.recognizedFoods[1].confidence = 90
                  /\ r.recognizedFoods[2].confidence = 85
                  /\ scenarioExpected(analysis[m].userId, r.nutrition,
                                      r.healthRisks, r.recommendations)
        /\ completedRecord(m) =>
              LET doc == mealDb[m].doc
              IN  /\ scenarioExpected(doc.userId, doc.nutrition, doc.healthRisks,
                                      doc.recommendations)
                  /\ doc.category =
                        IF doc.userId = "u1" /\ doc.nutrition["potassium"] > milli(400)
                        THEN "unhealthy" ELSE "healthy"

\* the kidney patient's record is saved with combined potassium above 400
C21_Witness ==
    \E m \in MealIds :
        /\ completedRecord(m)
        /\ mealDb[m].doc.userId = "u1"
        /\ mealDb[m].doc.nutrition["potassium"] > milli(400)
        /\ mealDb[m].doc.category = "unhealthy"
        /\ Len(mealDb[m].doc.healthRisks) = 1

(***************************************************************************)
(* Specification SpecJoin: getNutritionalData with the order in which the  *)
(* lookups settle on record                                                *)
(***************************************************************************)
\* rice at 0.5, chicken at 1.0 and a food without confidence that the table
\* does not hold
JoinFoods ==
    { [name |-> <<"r","i","c","e">>, confidence |-> 50],
      [name |-> <<"c","h","i","c","k","e","n">>, confidence |-> 100],
      [name |-> <<"K","a","l","e">>] }

InitJoin ==
    /\ foods \in UNION { [1..n -> JoinFoods] : n \in 0..MaxFoodItems }
    /\ nutritionApiKey \in BOOLEAN
    /\ nutritionResults = <<>>
    /\ combinedNutrition = zeroNutrition
    /\ nuPc = "input"
    /\ ExtractIdle /\ RiskIdle /\ MealIdle /\ ClientIdle

\* the lookups that have settled so far
settledLookups ==
    { i \in 1..Len(nutritionResults) : nutritionResults[i].status # "pending" }

\* One lookup settles.  The result carries, besides what allSettled reports,
\* the outcome its request met and its place in the order of settling.
SettleLookupInTurn ==
    /\ nuPc = "awaiting"
    /\ \E i \in 1..Len(foods), outcome \in ApiOutcomes :
         /\ nutritionResults[i].status = "pending"
         /\ nutritionResults' =
              [nutritionResults EXCEPT ![i] =
                  [status |-> "fulfilled", hasValue |-> TRUE,
                   value |-> getFoodNutrition(foods[i].name, nutritionApiKey, outcome),
                   outcome |-> outcome,
                   settledAs |-> Cardinality(settledLookups) + 1]]
    /\ UNCHANGED <<foods, nutritionApiKey, combinedNutrition, nuPc>>
    /\ UNCHANGED besidesNutri

\* the results in the order in which they settled
inSettlingOrder(results) ==
    [n \in 1..Len(results) |->
        results[CHOOSE i \in 1..Len(results) : results[i].settledAs = n]]

\* a reading in which the results are combined in the order of settling
CombineInSettlingOrder ==
    /\ nuPc = "awaiting"
    /\ \A i \in 1..Len(foods) : nutritionResults[i].status # "pending"
    /\ combinedNutrition' =
          combineNutrition(inSettlingOrder(nutritionResults), foods)
    /\ nuPc' = "combined"
    /\ UNCHANGED <<foods, nutritionApiKey, nutritionResults>>
    /\ UNCHANGED besidesNutri

\* Promise.allSettled has resolved: combine
CombineSettled ==
    /\ nuPc = "awaiting"
    /\ \A i \in 1..Len(foods) : nutritionResults[i].status # "pending"
    /\ combinedNutrition' = combineNutrition(nutritionResults, foods)
    /\ nuPc' = "combined"
    /\ UNCHANGED <<foods, nutritionApiKey, nutritionResults>>
    /\ UNCHANGED besidesNutri

NextJoin == IssueLookups \/ SettleLookupInTurn \/ CombineSettled

SpecJoin == InitJoin /\ [][NextJoin]_vars

(***************************************************************************)
(* Claims about the join of getNutritionalData, checked under SpecJoin     *)
(***************************************************************************)
\* the vector of the foods and of the outcome each food's request met, read
\* food by food without regard to the order of settling
vectorOfOutcomes ==
    combineNutrition(
        [i \in 1..Len(foods) |->
            [status |-> "fulfilled", hasValue |-> TRUE,
             value |-> getFoodNutrition(foods[i].name, nutritionApiKey,
                                        nutritionResults[i].outcome)]],
        foods)

\* C22: every lookup is issued before any is awaited (while awaiting, each
\* food has its lookup, pending or settled, and none has settled before
\* that); the combination is made only once every lookup has settled; the
\* combined vector is that of the foods and their outcomes, whatever the
\* order in which the lookups settled
C22_FanOutFanIn ==
    /\ nuPc = "input" => nutritionResults = <<>>
    /\ nuPc \in {"awaiting", "combined"} => Len(nutritionResults) = Len(foods)
    /\ nuPc = "combined" =>
          /\ settledLookups = 1..Len(foods)
          /\ { nutritionResults[i].settledAs : i \in 1..Len(foods) } = 1..Len(foods)
          /\ combinedNutrition = vectorOfOutcomes

\* rice and chicken combined, the lookup of chicken having settled first
\* and met another outcome than that of rice
C22_Witness ==
    /\ nuPc = "combined"
    /\ Len(foods) = 2
    /\ foods[1].name = <<"r","i","c","e">>
    /\ foods[2].name = <<"c","h","i","c","k","e","n">>
    /\ nutritionApiKey
    /\ nutritionResults[2].settledAs = 1
    /\ nutritionResults[1].outcome # nutritionResults[2].outcome
    /\ combinedNutrition = vectorOfOutcomes

(***************************************************************************)
(* Specification SpecSubmit: the POST /meal handler, await by await, and   *)
(* the analysis it starts                                                  *)
(***************************************************************************)
InitSubmit ==
    /\ mealDb = [m \in MealIds |-> noMeal]
    /\ userDb = initialUsers
    /\ analysis = [m \in MealIds |-> idleAnalysis]
    /\ feedback = [m \in MealIds |-> idleFeedback]
    /\ writeLog = [m \in MealIds |-> <<>>]
    /\ request = [m \in MealIds |-> idleRequest]
    /\ clock = 0
    /\ loginDays = {}
    /\ poll = idlePoll
    /\ ExtractIdle /\ RiskIdle /\ NutriIdle

\* the handler answers: res.status(status).json(...)
responded(req, status) ==
    [idleRequest EXCEPT !.pc = "responded", !.status = status,
                        !.userId = req.userId]

\* POST /meal by user u with a valid body and an image, up to
\* await User.findById(userId)
PostMeal(m, u) ==
    /\ request[m].pc = "idle"
    /\ \A k \in MealIds : k < m => request[k].pc # "idle"
    /\ request' = [request EXCEPT ![m].pc = "findUser", ![m].userId = u]
    /\ UNCHANGED <<clock, loginDays, poll>>
    /\ UNCHANGED <<mealVars, extractVars, riskVars, nutriVars>>

\* User.findById resolves with the user or with null (404), or rejects (the
\* catch answers 500)
FindUser(m) ==
    /\ request[m].pc = "findUser"
    /\ \/ request' = [request EXCEPT ![m].pc = "upload",
                                     ![m].user = userDb[request[m].userId]]
       \/ request' = [request EXCEPT ![m] = responded(@, 404)]
       \/ request' = [request EXCEPT ![m] = responded(@, 500)]
    /\ UNCHANGED <<clock, loginDays, poll>>
    /\ UNCHANGED <<mealVars, extractVars, riskVars, nutriVars>>

\* await uploadToCloudinary resolves or rejects
UploadImage(m) ==
    /\ request[m].pc = "upload"
    /\ \/ request' = [request EXCEPT ![m].pc = "save"]
       \/ request' = [request EXCEPT ![m] = responded(@, 500)]
    /\ UNCHANGED <<clock, loginDays, poll>>
    /\ UNCHANGED <<mealVars, extractVars, riskVars, nutriVars>>

\* a reading in which the handler awaits the analysis before it answers
SaveMealRecordAwaitingAnalysis(m) ==
    /\ request[m].pc = "save"
    /\ mealDb' = [mealDb EXCEPT ![m] =
                     [exists |-> TRUE, doc |-> preSave(newMeal(request[m].userId))]]
    /\ writeLog' = [writeLog EXCEPT ![m] = <<"processing">>]
    /\ analysis' = [analysis EXCEPT ![m] =
                       [idleAnalysis EXCEPT !.pc = "vision",
                                            !.user = request[m].user,
                                            !.userId = request[m].userId]]
    /\ request' = [request EXCEPT ![m].pc = "analysis"]
    /\ UNCHANGED <<userDb, feedback>>
    /\ UNCHANGED <<clock, loginDays, poll>>
    /\ UNCHANGED <<extractVars, riskVars, nutriVars>>

\* await meal.save() of the new record with status processing.  Once it has
\* resolved, analyzeMealAsync is called without await and runs to its first
\* await, and the handler answers 202; a rejected save is answered 500.
SaveMealRecord(m) ==
    /\ request[m].pc = "save"
    /\ \/ /\ mealDb' = [mealDb EXCEPT ![m] =
                           [exists |-> TRUE,
                            doc |-> preSave(newMeal(request[m].userId))]]
          /\ writeLog' = [writeLog EXCEPT ![m] = <<"processing">>]
          /\ analysis' = [analysis EXCEPT ![m] =
                             [idleAnalysis EXCEPT !.pc = "vision",
                                                  !.user = request[m].user,
                                                  !.userId = request[m].userId]]
          /\ request' = [request EXCEPT ![m] = responded(@, 202)]
       \/ /\ request' = [request EXCEPT ![m] = responded(@, 500)]
          /\ UNCHANGED <<mealDb, writeLog, analysis>>
    /\ UNCHANGED <<userDb, feedback>>
    /\ UNCHANGED <<clock, loginDays, poll>>
    /\ UNCHANGED <<extractVars, riskVars, nutriVars>>

NextSubmit ==
    \/ \E m \in MealIds, u \in Users : PostMeal(m, u)
    \/ \E m \in MealIds : FindUser(m)
    \/ \E m \in MealIds : UploadImage(m)
    \/ \E m \in MealIds : SaveMealRecord(m)
    \/ \E m \in MealIds : VisionReturns(m)
    \/ \E m \in MealIds : VisionThrows(m)
    \/ \E m \in MealIds : FindMeal(m)
    \/ \E m \in MealIds : SaveResult(m)
    \/ \E m \in MealIds : AddPoints(m)
    \/ \E m \in MealIds : CheckAchievements(m)
    \/ \E m \in MealIds : CatchFind(m)
    \/ \E m \in MealIds : CatchSave(m)
    \/ \E m \in MealIds, u \in Users : DeleteMeal(m, u)

SpecSubmit == InitSubmit /\ [][NextSubmit]_vars

(***************************************************************************)
(* Claims about POST /meal, checked under SpecSubmit                       *)
(***************************************************************************)
\* analyzeMealAsync has been called for the meal
analysisStarted(m) == analysis[m].pc # "idle"

\* C23: an analysis is started only after its meal record was stored with
\* status processing, and the handler that started it has answered 202; it
\* answers 202 whether or not the analysis has finished, and whatever the
\* analysis does (succeed, fail, fail to record its failure) the response
\* stays 202; a handler that answered 404 or 500 has started no analysis
C23_FireAndForget ==
    \A m \in MealIds :
        /\ request[m].status \in {0, 202, 404, 500}
        /\ analysisStarted(m) =>
              /\ Len(writeLog[m]) >= 1
              /\ writeLog[m][1] = "processing"
              /\ request[m].status = 202
              /\ request[m].pc = "responded"
        /\ request[m].status = 202 => analysisStarted(m)
        /\ request[m].status \in {404, 500} =>
              /\ ~analysisStarted(m)
              /\ ~mealDb[m].exists

\* the handler has answered 202 and the analysis has since failed
C23_Witness ==
    \E m \in MealIds :
        /\ request[m].status = 202
        /\ analysis[m].pc = "done"
        /\ mealDb[m].exists
        /\ mealDb[m].doc.analysisStatus = "failed"

\* the handler has answered 202 while the vision call is still running
C23_WitnessRunning ==
    \E m \in MealIds :
        /\ request[m].status = 202
        /\ analysis[m].pc = "vision"

(***************************************************************************)
(* Specification SpecSubmitFair: SpecSubmit with every started analysis    *)
(* taking its next step.  Each step of analyzeMealAsync awaits a call that *)
(* settles: the vision call returns or throws, a database call resolves or *)
(* rejects.                                                                *)
(***************************************************************************)
\* the next step of the analysis of meal m
AnalysisStep(m) ==
    \/ VisionReturns(m)
    \/ VisionThrows(m)
    \/ FindMeal(m)
    \/ SaveResult(m)
    \/ AddPoints(m)
    \/ CheckAchievements(m)
    \/ CatchFind(m)
    \/ CatchSave(m)

SpecSubmitFair ==
    /\ InitSubmit
    /\ [][NextSubmit]_vars
    /\ \A m \in MealIds : WF_vars(AnalysisStep(m))

(***************************************************************************)
(* Claims about the progress of the analysis, checked under SpecSubmitFair *)
(***************************************************************************)
\* the meal record exists with status processing
processingRecord(m) ==
    mealDb[m].exists /\ mealDb[m].doc.analysisStatus = "processing"

\* the record is gone or has reached a final status
settledOrDeleted(m) ==
    \/ ~mealDb[m].exists
    \/ mealDb[m].doc.analysisStatus \in {"completed", "failed"}

\* a read or write of the meal record in the catch block was rejected
recordUpdateRejected(m) == analysis[m].updateError

\* C24: every submitted meal that is not deleted eventually reaches status
\* completed or failed, in every execution in which the vision call settles
\* and the reads and writes of the meal record in the catch block succeed,
\* also when awarding points or checking achievements throws
C24_EventuallySettled ==
    \A m \in MealIds :
        processingRecord(m) ~> (settledOrDeleted(m) \/ recordUpdateRejected(m))

\* awarding the points was rejected after the result was saved, and the
\* record has a final status
C24_Witness ==
    \E m \in MealIds :
        /\ analysis[m].pc = "done"
        /\ ~analysis[m].updateError
        /\ mealDb[m].exists
        /\ Len(writeLog[m]) = 3
        /\ mealDb[m].doc.analysisStatus \in {"completed", "failed"}

(***************************************************************************)
(* Specification SpecPoints: two meals submitted and analysed, each        *)
(* analysis working on the User document its request has loaded            *)
(***************************************************************************)
MaxSubmissions == 2

Submissions == 1..MaxSubmissions

InitPoints ==
    /\ mealDb = [m \in Submissions |-> noMeal]
    /\ userDb = initialUsers
    /\ analysis = [m \in Submissions |-> idleAnalysis]
    /\ feedback = [m \in Submissions |-> idleFeedback]
    /\ writeLog = [m \in Submissions |-> <<>>]
    /\ ExtractIdle /\ RiskIdle /\ NutriIdle /\ ClientIdle

NextPoints ==
    \/ \E m \in Submissions, u \in Users : SubmitMeal(m, u)
    \/ \E m \in Submissions : VisionReturns(m)
    \/ \E m \in Submissions : VisionThrows(m)
    \/ \E m \in Submissions : FindMeal(m)
    \/ \E m \in Submissions : SaveResult(m)
    \/ \E m \in Submissions : AddPoints(m)
    \/ \E m \in Submissions : CheckAchievements(m)
    \/ \E m \in Submissions : CatchFind(m)
    \/ \E m \in Submissions : CatchSave(m)
    \/ \E m \in Submissions, u \in Users : DeleteMeal(m, u)

SpecPoints == InitPoints /\ [][NextPoints]_vars

(***************************************************************************)
(* Claims about the points of meal uploads, checked under SpecPoints       *)
(***************************************************************************)
\* the analysis of meal m has returned with its result recorded last
completedAnalysis(m) ==
    /\ analysis[m].pc = "done"
    /\ ~analysis[m].updateError
    /\ writeLog[m] # <<>>
    /\ writeLog[m][Len(writeLog[m])] = "completed"

completedAnalysesOf(u) ==
    { m \in Submissions : analysis[m].userId = u /\ completedAnalysis(m) }

\* the points of the achievements in the user's stored list
RECURSIVE achievementPoints(_, _)
achievementPoints(user, i) ==
    IF i > Len(achievementList(user)) THEN 0
    ELSE (IF hasAchievement(user, achievementList(user)[i].id)
          THEN achievementList(user)[i].points ELSE 0)
         + achievementPoints(user, i + 1)

\* every started analysis has returned and no meal has been deleted
allReturned ==
    \A m \in Submissions :
        analysis[m].pc \in {"idle", "done"} /\ (analysis[m].pc = "done" => mealDb[m].exists)

\* C25: once the analyses have returned, N of them completed, each user's
\* stored points have grown by exactly 10 * N plus the points of the
\* achievements unlocked
C25_PointsOncePerCompletedAnalysis ==
    allReturned =>
        \A u \in Users :
            userDb[u].points - initialUsers[u].points =
                10 * Cardinality(completedAnalysesOf(u))
                + achievementPoints(userDb[u], 1)

(***************************************************************************)
(* Specification SpecCategory: a meal record whose healthRisks are changed *)
(* and saved any number of times                                           *)
(***************************************************************************)
MaxRisks == 2

\* the severities the healthRisks schema admits
Severities == {"low", "warning", "danger"}

RiskSamples ==
    { riskFinding(type, severity, 0, 0) :
        type \in {"high_carbs", "high_fat"}, severity \in Severities }

RiskLists == UNION { [1..n -> RiskSamples] : n \in 0..MaxRisks }

InitCategory ==
    /\ mealDb = [m \in MealIds |-> noMeal]
    /\ userDb = initialUsers
    /\ analysis = [m \in MealIds |-> idleAnalysis]
    /\ feedback = [m \in MealIds |-> idleFeedback]
    /\ writeLog = [m \in MealIds |-> <<>>]
    /\ ExtractIdle /\ RiskIdle /\ NutriIdle /\ ClientIdle

\* new Meal({...}) and save(), as POST /meal creates the record
SaveNewMeal(m, u) ==
    /\ ~mealDb[m].exists
    /\ mealDb' = [mealDb EXCEPT ![m] = [exists |-> TRUE, doc |-> preSave(newMeal(u))]]
    /\ UNCHANGED <<userDb, analysis, feedback, writeLog>>
    /\ UNCHANGED besidesMeal

\* meal.updateAnalysis({ healthRisks }): the list is replaced, the status set
\* to completed and the document saved
UpdateAnalysis(m, risks) ==
    /\ mealDb[m].exists
    /\ mealDb' = [mealDb EXCEPT ![m].doc =
                     preSave([@ EXCEPT !.healthRisks = risks,
                                       !.analysisStatus = "completed"])]
    /\ UNCHANGED <<userDb, analysis, feedback, writeLog>>
    /\ UNCHANGED besidesMeal

NextCategory ==
    \/ \E m \in MealIds, u \in Users : SaveNewMeal(m, u)
    \/ \E m \in MealIds, risks \in RiskLists : UpdateAnalysis(m, risks)

SpecCategory == InitCategory /\ [][NextCategory]_vars

(***************************************************************************)
(* Claims about riskLevel and category, checked under SpecCategory         *)
(***************************************************************************)
\* C26: for every saved meal the riskLevel virtual and the stored category
\* agree: high exactly with unhealthy, medium exactly with moderate, low
\* exactly with healthy
C26_RiskLevelMatchesCategory ==
    \A m \in MealIds :
        mealDb[m].exists =>
            LET doc == mealDb[m].doc
            IN  /\ riskLevel(doc) = "high" <=> doc.category = "unhealthy"
                /\ riskLevel(doc) = "medium" <=> doc.category = "moderate"
                /\ riskLevel(doc) = "low" <=> doc.category = "healthy"

(***************************************************************************)
(* Specification SpecAchievements: unlockAchievement and                   *)
(* checkAndUnlockAchievements called any number of times on one User       *)
(* document, its streak changing in between                                *)
(***************************************************************************)
\* the streaks a document is seen with: below 7, 7 to 29, 30 or more
StreakSamples == {0, 7, 30}

\* the achievements unlockAchievement is called with: the three of
\* checkAndUnlockAchievements and one that carries no points
AchievementSamples ==
    { [id |-> "first_meal", points |-> 50],
      [id |-> "week_streak", points |-> 200],
      [id |-> "month_streak", points |-> 500],
      [id |-> "beta_tester", points |-> 0] }

\* the call that holds the document
holder == 1

\* a User document is loaded by its holder; nothing is unlocked yet
InitAchievements ==
    /\ \E u \in Users, s \in StreakSamples :
         /\ userDb = [initialUsers EXCEPT ![u].streak = s]
         /\ analysis = [m \in MealIds |->
                          IF m = holder
                          THEN [idleAnalysis EXCEPT !.userId = u,
                                   !.user = [initialUsers[u] EXCEPT !.streak = s]]
                          ELSE idleAnalysis]
    /\ mealDb = [m \in MealIds |-> noMeal]
    /\ feedback = [m \in MealIds |-> idleFeedback]
    /\ writeLog = [m \in MealIds |-> <<>>]
    /\ ExtractIdle /\ RiskIdle /\ NutriIdle /\ ClientIdle

\* save() of the held document: the achievements and points it holds are
\* stored
storedFrom(stored, user) ==
    [stored EXCEPT !.achievements = user.achievements, !.points = user.points]

\* user.unlockAchievement(achievement); its save resolves or rejects
UnlockAchievement ==
    /\ \E achievement \in AchievementSamples, resolves \in BOOLEAN :
         LET user == analysis[holder].user
             unlocked == unlockAchievement(user, achievement)
         IN  /\ analysis' = [analysis EXCEPT ![holder].user = unlocked]
             /\ userDb' = IF resolves /\ unlocked # user
                          THEN [userDb EXCEPT ![analysis[holder].userId] =
                                                  storedFrom(@, unlocked)]
                          ELSE userDb
    /\ UNCHANGED <<mealDb, feedback, writeLog>>
    /\ UNCHANGED besidesMeal

\* checkAndUnlockAchievements(user), the save of one of its unlocks
\* rejecting or none
CheckAndUnlockAchievements ==
    /\ \E failAt \in 0..3 :
         LET user == analysis[holder].user
             r == unlockFrom(user, user, 1, failAt)
         IN  /\ analysis' = [analysis EXCEPT ![holder].user = r.user]
             /\ userDb' = IF r.saved # user
                          THEN [userDb EXCEPT ![analysis[holder].userId] =
                                                  storedFrom(@, r.saved)]
                          ELSE userDb
    /\ UNCHANGED <<mealDb, feedback, writeLog>>
    /\ UNCHANGED besidesMeal

\* the streak of the held document changes (a login, updateStreak)
StreakChanges ==
    /\ \E s \in StreakSamples :
         /\ s # analysis[holder].user.streak
         /\ analysis' = [analysis EXCEPT ![holder].user.streak = s]
         /\ userDb' = [userDb EXCEPT ![analysis[holder].userId].streak = s]
    /\ UNCHANGED <<mealDb, feedback, writeLog>>
    /\ UNCHANGED besidesMeal

NextAchievements ==
    UnlockAchievement \/ CheckAndUnlockAchievements \/ StreakChanges

SpecAchievements == InitAchievements /\ [][NextAchievements]_vars

(***************************************************************************)
(* Claims about achievements, checked under SpecAchievements               *)
(***************************************************************************)
\* the number of entries of the list with the id
occurrences(user, id) ==
    Cardinality({ i \in 1..Len(user.achievements) : user.achievements[i] = id })

\* the points of the sampled achievements that the list holds
RECURSIVE pointsOfUnlocked(_, _)
pointsOfUnlocked(user, remaining) ==
    IF remaining = {} THEN 0
    ELSE LET a == CHOOSE x \in remaining : TRUE
         IN  (IF hasAchievement(user, a.id) THEN a.points ELSE 0)
             + pointsOfUnlocked(user, remaining \ {a})

\* each id at most once, and the points those of the ids in the list, each
\* counted once
unlockedOnce(user, before) ==
    /\ \A a \in AchievementSamples : occurrences(user, a.id) <= 1
    /\ user.points = before.points + pointsOfUnlocked(user, AchievementSamples)

\* C27: in the held document and in the stored one each achievement id
\* occurs at most once and its points were added at most once (the points
\* are those of the ids in the list); unlocking an achievement that the
\* document holds changes neither its achievements nor its points
C27_UnlockedAtMostOnce ==
    LET user == analysis[holder].user
        u == analysis[holder].userId
    IN  /\ unlockedOnce(user, initialUsers[u])
        /\ unlockedOnce(userDb[u], initialUsers[u])
        /\ \A a \in AchievementSamples :
              hasAchievement(user, a.id) => unlockAchievement(user, a) = user

\* week_streak and month_streak are unlocked and stored, and a further
\* check has found nothing to unlock
C27_Witness ==
    LET user == analysis[holder].user
    IN  /\ hasAchievement(user, "week_streak")
        /\ hasAchievement(user, "month_streak")
        /\ user.points = 700
        /\ userDb[analysis[holder].userId].points = 700
        /\ unlockFrom(user, user, 1, 0).user = user

(***************************************************************************)
(* Specification SpecRoutes: GET /meal/:mealId, POST /feedback/:mealId and *)
(* DELETE /meal/:mealId requested by any user with any id, the database    *)
(* calls succeeding                                                        *)
(***************************************************************************)
\* a meal of user u whose analysis has found a danger and a warning
analysedMeal(u) ==
    preSave([newMeal(u) EXCEPT
        !.healthRisks = << riskFinding("high_sugar", "danger", 20000, 15),
                           riskFinding("high_fat", "warning", 20010, 20) >>,
        !.recommendations = << recommendation("high"), recommendation("medium") >>,
        !.analysisStatus = "completed"])

\* what the collection may hold under an id: nothing, a meal just
\* submitted, or an analysed meal, of either user
StoredMealSamples ==
    { noMeal }
    \cup { [exists |-> TRUE, doc |-> preSave(newMeal(u))] : u \in Users }
    \cup { [exists |-> TRUE, doc |-> analysedMeal(u)] : u \in Users }

\* The :mealId of a request: a well-formed ObjectId, that of meal id or
\* (id 0) of no meal, or a string that is no ObjectId
MealIdParams == [wellFormed : BOOLEAN, id : 0..MaxMeals]

\* what a handler has read or answered; body is the meal object of the
\* response, if it has one
noQuery == [rejected |-> FALSE, found |-> FALSE, doc |-> newMeal("u1")]

noRequest ==
    [route |-> "none", userId |-> "u1", mealId |-> [wellFormed |-> TRUE, id |-> 0],
     status |-> 0, hasMeal |-> FALSE, meal |-> newMeal("u1")]

InitRoutes ==
    /\ mealDb \in [MealIds -> StoredMealSamples]
    /\ userDb = initialUsers
    /\ analysis = [m \in MealIds |-> idleAnalysis]
    /\ feedback = [m \in MealIds |-> idleFeedback]
    /\ writeLog = [m \in MealIds |-> <<>>]
    /\ request = noRequest
    /\ clock = 0
    /\ loginDays = {}
    /\ poll = idlePoll
    /\ ExtractIdle /\ RiskIdle /\ NutriIdle

\* a reading of the query that looks the meal up by its id alone
findById(mealId, userId) ==
    IF ~mealId.wellFormed THEN [noQuery EXCEPT !.rejected = TRUE]
    ELSE IF mealId.id \in MealIds /\ mealDb[mealId.id].exists
         THEN [noQuery EXCEPT !.found = TRUE, !.doc = mealDb[mealId.id].doc]
         ELSE noQuery

\* Meal.findOne({ _id: mealId, userId }): casting a string that is no
\* ObjectId rejects (CastError); otherwise the meal with that id and that
\* owner, or null
findOne(mealId, userId) ==
    IF ~mealId.wellFormed THEN [noQuery EXCEPT !.rejected = TRUE]
    ELSE IF /\ mealId.id \in MealIds
            /\ mealDb[mealId.id].exists
            /\ mealDb[mealId.id].doc.userId = userId
         THEN [noQuery EXCEPT !.found = TRUE, !.doc = mealDb[mealId.id].doc]
         ELSE noQuery

answer(route, u, mealId, status) ==
    [noRequest EXCEPT !.route = route, !.userId = u, !.mealId = mealId,
                      !.status = status]

\* GET /meal/:mealId by user u: 500 from the catch, 404, or the meal
GetMeal(u, mealId) ==
    /\ LET q == findOne(mealId, u)
       IN  request' =
              IF q.rejected THEN answer("get", u, mealId, 500)
              ELSE IF ~q.found THEN answer("get", u, mealId, 404)
              ELSE [answer("get", u, mealId, 200) EXCEPT !.hasMeal = TRUE,
                                                         !.meal = q.doc]
    /\ UNCHANGED <<mealVars, clock, loginDays, poll>>
    /\ UNCHANGED <<extractVars, riskVars, nutriVars>>

\* POST /feedback/:mealId by user u with a valid body: the feedback is set
\* on the meal found and the meal saved
PostFeedback(u, mealId) ==
    /\ LET q == findOne(mealId, u)
       IN  IF q.rejected
           THEN request' = answer("feedback", u, mealId, 500) /\ UNCHANGED mealDb
           ELSE IF ~q.found
                THEN request' = answer("feedback", u, mealId, 404) /\ UNCHANGED mealDb
                ELSE /\ request' = answer("feedback", u, mealId, 200)
                     /\ mealDb' = [mealDb EXCEPT ![mealId.id].doc =
                                      savedOver(@, q.doc,
                                                [q.doc EXCEPT !.userFeedback = TRUE])]
    /\ UNCHANGED <<userDb, analysis, feedback, writeLog, clock, loginDays, poll>>
    /\ UNCHANGED <<extractVars, riskVars, nutriVars>>

\* DELETE /meal/:mealId by user u: the meal found is removed by
\* findByIdAndDelete
DeleteMealById(u, mealId) ==
    /\ LET q == findOne(mealId, u)
       IN  IF q.rejected
           THEN request' = answer("delete", u, mealId, 500) /\ UNCHANGED mealDb
           ELSE IF ~q.found
                THEN request' = answer("delete", u, mealId, 404) /\ UNCHANGED mealDb
                ELSE /\ request' = answer("delete", u, mealId, 200)
                     /\ mealDb' = [mealDb EXCEPT ![mealId.id] = noMeal]
    /\ UNCHANGED <<userDb, analysis, feedback, writeLog, clock, loginDays, poll>>
    /\ UNCHANGED <<extractVars, riskVars, nutriVars>>

NextRoutes ==
    \/ \E u \in Users, mealId \in MealIdParams : GetMeal(u, mealId)
    \/ \E u \in Users, mealId \in MealIdParams : PostFeedback(u, mealId)
    \/ \E u \in Users, mealId \in MealIdParams : DeleteMealById(u, mealId)

SpecRoutes == InitRoutes /\ [][NextRoutes]_vars

(***************************************************************************)
(* Claims about the ownership check of the meal routes, checked under      *)
(* SpecRoutes                                                              *)
(***************************************************************************)
\* the id names a stored meal of the user
ownsMeal(u, mealId) ==
    /\ mealId.wellFormed
    /\ mealId.id \in MealIds
    /\ mealDb[mealId.id].exists
    /\ mealDb[mealId.id].doc.userId = u

\* a step in which a request with an id that names no meal of the requester
\* is answered with one of the statuses, without a meal in the response and
\* with the collection left as it was; a request that changes the
\* collection or returns a meal names a meal of the requester
guardedBy(statuses) ==
    /\ ~ownsMeal(request'.userId, request'.mealId) =>
          /\ request'.status \in statuses
          /\ ~request'.hasMeal
          /\ mealDb' = mealDb
    /\ (mealDb' # mealDb \/ request'.hasMeal) =>
          /\ ownsMeal(request'.userId, request'.mealId)
          /\ \A m \in MealIds : m # request'.mealId.id => mealDb'[m] = mealDb[m]
          /\ request'.hasMeal => request'.meal = mealDb[request'.mealId.id].doc

MaxHours == 50

\* 86400000 ms
DayInHours == 24

\* the hours at which the calendar days 0, 1, 2, 3 of the time zone begin:
\* day 1 is the day on which the clocks are set forward
dayStarts == <<0, 24, 47, 71>>

\* new Date(t).toDateString(): the calendar day of the instant t
toDateString(t) ==
    Cardinality({ d \in 1..Len(dayStarts) : dayStarts[d] <= t }) - 1

\* the user whose logins are followed
loginUser == "u1"

\* the paths of a User document that a login reads or writes; lastLogin
\* has the default Date.now of the registration
registeredUser(now) == [streak |-> 0, lastLogin |-> now]

\* a reading of updateStreak that compares calendar days
updateStreakByCalendarDay(user, now) ==
    IF toDateString(user.lastLogin) = toDateString(now) THEN user
    ELSE [user EXCEPT
             !.streak = IF toDateString(user.lastLogin) = toDateString(now) - 1
                        THEN @ + 1 ELSE 1,
             !.lastLogin = now]

\* userSchema.methods.updateStreak at the instant now, before its save
updateStreak(user, now) ==
    LET today == toDateString(now)
        lastLogin == toDateString(user.lastLogin)
        yesterday == toDateString(now - DayInHours)
    IN  IF lastLogin = today THEN user
        ELSE [user EXCEPT
                 !.streak = IF lastLogin = yesterday THEN @ + 1 ELSE 1,
                 !.lastLogin = now]

\* the user has registered at hour 0 and not logged in yet
InitStreak ==
    /\ userDb = [u \in {loginUser} |-> registeredUser(0)]
    /\ clock = 0
    /\ loginDays = {}
    /\ mealDb = [m \in MealIds |-> noMeal]
    /\ analysis = [m \in MealIds |-> idleAnalysis]
    /\ feedback = [m \in MealIds |-> idleFeedback]
    /\ writeLog = [m \in MealIds |-> <<>>]
    /\ request = [m \in MealIds |-> idleRequest]
    /\ poll = idlePoll
    /\ ExtractIdle /\ RiskIdle /\ NutriIdle

\* an hour passes
Tick ==
    /\ clock < MaxHours
    /\ clock' = clock + 1
    /\ UNCHANGED <<mealVars, request, loginDays, poll>>
    /\ UNCHANGED <<extractVars, riskVars, nutriVars>>

\* POST /login with the right password: await user.updateStreak(), whose
\* save stores the document
Login ==
    /\ userDb' = [userDb EXCEPT ![loginUser] = updateStreak(@, clock)]
    /\ loginDays' = loginDays \cup {toDateString(clock)}
    /\ UNCHANGED <<mealDb, analysis, feedback, writeLog, request, clock, poll>>
    /\ UNCHANGED <<extractVars, riskVars, nutriVars>>

NextStreak == Tick \/ Login

SpecStreak == InitStreak /\ [][NextStreak]_vars

(***************************************************************************)
(* Claims about updateStreak, checked under SpecStreak                     *)
(***************************************************************************)
\* C29: a login on the calendar day of the stored lastLogin changes neither
\* streak nor lastLogin; a login on the day after it increases streak by
\* exactly 1, any other login sets streak to 1, and in both cases lastLogin
\* becomes the current time; streak never exceeds the number of distinct
\* days on which the user has logged in
C29_StreakCountsConsecutiveDays ==
    [][ LET user == userDb[loginUser]
            after == userDb'[loginUser]
            loggedIn == clock' = clock
        IN  /\ loggedIn =>
                 CASE toDateString(clock) = toDateString(user.lastLogin) ->
                          after = user
                   [] toDateString(clock) = toDateString(user.lastLogin) + 1 ->
                          after.streak = user.streak + 1 /\ after.lastLogin = clock
                   [] OTHER ->
                          after.streak = 1 /\ after.lastLogin = clock
            /\ after.streak <= Cardinality(loginDays') ]_vars

(***************************************************************************)
(* Specification SpecPoll: the client's pollAnalysisResults on a submitted *)
(* meal while the server's analysis writes its outcome or the meal is      *)
(* deleted; SpecPollFair adds that the client's loop keeps running         *)
(***************************************************************************)
\* const maxAttempts = 30
MaxAttempts == 30

\* the meal the client polls
polledMeal == 1

notFound == "Meal not found"

fetchFailed == "Failed to fetch"

analysisFailed == "Analysis failed"

analysisTimeout == "Analysis timeout"

noOutcome ==
    [kind |-> "none", message |-> "", foods |-> <<>>, nutrition |-> zeroNutrition,
     risks |-> <<>>, recommendations |-> <<>>]

\* The loop's state: attempts as the code counts them, the requests made
\* so far, what the last request saw (a status with the meal of the
\* response, or "error" for a failed request with its message), and how
\* the call ended
startedPoll ==
    [pc |-> "polling", attempts |-> 0, requests |-> 0, seen |-> "none",
     seenMeal |-> newMeal("u1"), seenError |-> "", outcome |-> noOutcome]

\* the meal has just been submitted (POST /meal stores status processing;
\* the schema's default is pending)
InitPoll ==
    /\ \E u \in Users, status \in {"pending", "processing"} :
         mealDb = [m \in MealIds |->
                     IF m = polledMeal
                     THEN [exists |-> TRUE,
                           doc |-> [preSave(newMeal(u)) EXCEPT
                                       !.analysisStatus = status]]
                     ELSE noMeal]
    /\ poll = startedPoll
    /\ userDb = initialUsers
    /\ analysis = [m \in MealIds |-> idleAnalysis]
    /\ feedback = [m \in MealIds |-> idleFeedback]
    /\ writeLog = [m \in MealIds |-> <<>>]
    /\ request = [m \in MealIds |-> idleRequest]
    /\ clock = 0
    /\ loginDays = {}
    /\ ExtractIdle /\ RiskIdle /\ NutriIdle

unfinished(doc) == doc.analysisStatus \in {"pending", "processing"}

\* the server's analysis saves its result
AnalysisCompletes ==
    /\ mealDb[polledMeal].exists
    /\ unfinished(mealDb[polledMeal].doc)
    /\ mealDb' = [mealDb EXCEPT ![polledMeal].doc =
                     [analysedMeal(@.userId) EXCEPT
                         !.recognizedFoods = extractFoodItems(scenarioResponse)]]
    /\ UNCHANGED <<userDb, analysis, feedback, writeLog>>
    /\ UNCHANGED <<request, clock, loginDays, poll>>
    /\ UNCHANGED <<extractVars, riskVars, nutriVars>>

\* the server's analysis fails and records error.message, which may be
\* empty; this also happens to a completed meal (awarding points rejects)
AnalysisFails ==
    /\ mealDb[polledMeal].exists
    /\ mealDb[polledMeal].doc.analysisStatus # "failed"
    /\ \E message \in {"", visionError} :
         mealDb' = [mealDb EXCEPT ![polledMeal].doc = withFailure(@, message)]
    /\ UNCHANGED <<userDb, analysis, feedback, writeLog>>
    /\ UNCHANGED <<request, clock, loginDays, poll>>
    /\ UNCHANGED <<extractVars, riskVars, nutriVars>>

\* DELETE /meal/:mealId by the owner
MealDeleted ==
    /\ mealDb[polledMeal].exists
    /\ mealDb' = [mealDb EXCEPT ![polledMeal] = noMeal]
    /\ UNCHANGED <<userDb, analysis, feedback, writeLog>>
    /\ UNCHANGED <<request, clock, loginDays, poll>>
    /\ UNCHANGED <<extractVars, riskVars, nutriVars>>

returnedWith(doc) ==
    [noOutcome EXCEPT !.kind = "returned", !.foods = doc.recognizedFoods,
                      !.nutrition = doc.nutrition, !.risks = doc.healthRisks,
                      !.recommendations = doc.recommendations]

thrownWith(message) == [noOutcome EXCEPT !.kind = "thrown", !.message = message]

\* a reading of the loop in which the polls are not counted
afterResponseUncounted(p, doc) ==
    LET q == [p EXCEPT !.requests = @ + 1, !.seen = doc.analysisStatus,
                       !.seenMeal = doc]
    IN  IF doc.analysisStatus = "completed"
        THEN [q EXCEPT !.pc = "done", !.outcome = returnedWith(doc)]
        ELSE IF doc.analysisStatus = "failed"
             THEN [q EXCEPT !.pc = "done",
                            !.outcome = thrownWith(IF doc.analysisError # ""
                                                   THEN doc.analysisError
                                                   ELSE analysisFailed)]
             ELSE q

\* the loop's state after a request that saw the document
afterResponse(p, doc) ==
    LET q == [p EXCEPT !.requests = @ + 1, !.seen = doc.analysisStatus,
                       !.seenMeal = doc]
    IN  IF doc.analysisStatus = "completed"
        THEN [q EXCEPT !.pc = "done", !.outcome = returnedWith(doc)]
        ELSE IF doc.analysisStatus = "failed"
             THEN [q EXCEPT !.pc = "done",
                            !.outcome = thrownWith(IF doc.analysisError # ""
                                                   THEN doc.analysisError
                                                   ELSE analysisFailed)]
             ELSE IF p.attempts + 1 < MaxAttempts
                  THEN [q EXCEPT !.attempts = @ + 1]
                  ELSE [q EXCEPT !.attempts = @ + 1, !.pc = "done",
                                 !.outcome = thrownWith(analysisTimeout)]

\* the loop's state after a request that failed with the message
afterError(p, message) ==
    [p EXCEPT !.requests = @ + 1, !.seen = "error", !.seenError = message,
              !.pc = "done", !.outcome = thrownWith(message)]

\* One pass of the while loop: the request is answered with the meal, or
\* fails (404 for a meal that is gone, or the network fails); a completed
\* analysis is returned, a failed one or a failed request thrown; otherwise
\* the delay is awaited, attempts counted, and the loop left with the
\* timeout once attempts reaches maxAttempts
Poll ==
    /\ poll.pc = "polling"
    /\ \/ /\ mealDb[polledMeal].exists
          /\ poll' = afterResponse(poll, mealDb[polledMeal].doc)
       \/ /\ ~mealDb[polledMeal].exists
          /\ poll' = afterError(poll, notFound)
       \/ poll' = afterError(poll, fetchFailed)
    /\ UNCHANGED <<mealVars, request, clock, loginDays>>
    /\ UNCHANGED <<extractVars, riskVars, nutriVars>>

NextPoll == AnalysisCompletes \/ AnalysisFails \/ MealDeleted \/ Poll

SpecPoll == InitPoll /\ [][NextPoll]_vars

\* each await of the loop (the request, the delay) settles
SpecPollFair == SpecPoll /\ WF_vars(Poll)

(***************************************************************************)
(* Claims about pollAnalysisResults, checked under SpecPollFair            *)
(***************************************************************************)
\* how a call that has ended ended, given what its last poll saw; the
\* messages a failed request may be thrown with are given
endedAsSeen(requestFailureMessages) ==
    LET out == poll.outcome
    IN  CASE poll.seen = "completed" ->
                 /\ out.kind = "returned"
                 /\ out.foods = poll.seenMeal.recognizedFoods
                 /\ out.nutrition = poll.seenMeal.nutrition
                 /\ out.risks = poll.seenMeal.healthRisks
                 /\ out.recommendations = poll.seenMeal.recommendations
          [] poll.seen = "failed" ->
                 /\ out.kind = "thrown"
                 /\ out.message = IF poll.seenMeal.analysisError # ""
                                  THEN poll.seenMeal.analysisError
                                  ELSE analysisFailed
          [] poll.seen = "error" ->
                 /\ out.kind = "thrown"
                 /\ out.message = poll.seenError
                 /\ out.message \in requestFailureMessages
          [] OTHER ->
                 /\ out.kind = "thrown"
                 /\ out.message = analysisTimeout
                 /\ poll.requests = MaxAttempts

\* at most 30 polls; while the loop runs every poll so far saw pending or
\* processing; and it ends as its last poll saw
pollsAsSeen(requestFailureMessages) ==
    /\ poll.requests <= MaxAttempts
    /\ poll.pc = "polling" =>
          /\ poll.seen \in {"none", "pending", "processing"}
          /\ poll.requests = poll.attempts
          /\ poll.requests < MaxAttempts
          /\ poll.outcome = noOutcome
    /\ poll.pc = "done" =>
          /\ poll.requests = poll.attempts + (IF poll.outcome.message = analysisTimeout
                                              THEN 0 ELSE 1)
          /\ endedAsSeen(requestFailureMessages)

\* C30 as stated: the call ends after at most 30 polls, returning the data
\* at the first poll that sees completed, throwing the recorded error (or
\* 'Analysis failed') at the first poll that sees failed or whose request
\* fails, and throwing 'Analysis timeout' after 30 polls that all saw
\* pending or processing
C30_FailedRequestThrowsRecordedError ==
    pollsAsSeen({visionError, analysisFailed})

\* C30: the call always ends, after at most 30 polls: it returns the data
\* at the first poll that sees completed, throws the recorded error (or
\* 'Analysis failed') at the first poll that sees failed, throws the
\* request's own error at the first poll whose request fails, and throws
\* 'Analysis timeout' after 30 polls that all saw pending or processing
C30_PollTerminates ==
    /\ [](pollsAsSeen({notFound, fetchFailed}))
    /\ <>(poll.pc = "done")

\* thirty polls saw an unfinished analysis and the call has thrown the
\* timeout
C30_Witness ==
    /\ poll.pc = "done"
    /\ poll.requests = MaxAttempts
    /\ poll.seen \in {"pending", "processing"}
    /\ unfinished(poll.seenMeal)
    /\ poll.outcome = thrownWith(analysisTimeout)

====
